---------------------------- MODULE Spec2Model ----------------------------
(***************************************************************************)
(* Quickwit indexing core: the indexing pipeline (source, indexer,         *)
(* packager, uploader, sequencer, publisher), the split lifecycle kept by  *)
(* the metastore, the checkpoint-delta protocol and the garbage collector. *)
(*                                                                         *)
(* Four specifications share the variables of this module:                 *)
(*   Spec           the indexing pipeline of one index and one source      *)
(*   SpecMetastore  the metastore and a publisher fed with SplitUpdates    *)
(*   SpecGC         the garbage collector beside uploads and publishes     *)
(*   SpecDelta      the checkpoint-delta algebra on bounded inputs         *)
(***************************************************************************)
EXTENDS Integers, Sequences, FiniteSets, TLC

(***************************************************************************)
(* Positions and checkpoint deltas (quickwit_metastore::checkpoint).       *)
(* A Position is Beginning or an offset; offsets keep their numeric order. *)
(***************************************************************************)
Beginning == 0 - 1

\* Option<T>: None is the empty sequence, Some(x) the one-element sequence.
None == << >>

Some(x) == << x >>

IsSome(o) == Len(o) = 1

\* A SourceCheckpointDelta or SourceCheckpoint with no partition.
EmptyMap == [p \in {} |-> 0]

\* SourceCheckpoint::position_for_partition: the position recorded for the
\* partition; a partition the checkpoint does not hold stands at Beginning.
PositionOf(ck, p) == IF p \in DOMAIN ck THEN ck[p] ELSE Beginning

\* The partitions of a map in increasing order (BTreeMap iteration order).
RECURSIVE SortedPartitions(_)
SortedPartitions(S) ==
    IF S = {} THEN << >>
    ELSE LET m == CHOOSE x \in S : \A y \in S : x <= y
         IN  << m >> \o SortedPartitions(S \ {m})

\* SourceCheckpointDelta::record_partition_delta: a partition already in the
\* delta must be extended from its `to`; a new partition is inserted.
RecordPartitionDeltaOk(delta, p, from) ==
    p \in DOMAIN delta => delta[p].to = from

\* A mutation of RecordPartitionDelta: the composed entry restarts at the
\* `from` of the extension instead of keeping the original `from`.
RecordPartitionDeltaRestart(delta, p, from, to) ==
    [q \in DOMAIN delta \cup {p} |->
        IF q = p THEN [from |-> from, to |-> to] ELSE delta[q]]

RecordPartitionDelta(delta, p, from, to) ==
    [q \in DOMAIN delta \cup {p} |->
        IF q = p
        THEN [from |-> IF p \in DOMAIN delta THEN delta[p].from ELSE from,
              to |-> to]
        ELSE delta[q]]

\* SourceCheckpointDelta::extend: records the partition deltas of `other`
\* one after the other; the first one that does not follow fails the call.
RECURSIVE ExtendFrom(_, _, _)
ExtendFrom(delta, other, todo) ==
    IF todo = << >> THEN [ok |-> TRUE, delta |-> delta]
    ELSE LET p == Head(todo)
         IN  IF ~RecordPartitionDeltaOk(delta, p, other[p].from)
             THEN [ok |-> FALSE, delta |-> delta]
             ELSE ExtendFrom(
                    RecordPartitionDelta(delta, p, other[p].from, other[p].to),
                    other, Tail(todo))

Extend(delta, other) ==
    ExtendFrom(delta, other, SortedPartitions(DOMAIN other))

\* A mutation of CheckCompatibility: every delta is accepted.
CheckCompatibilityLax(ck, delta) ==
    \A p \in DOMAIN delta : PositionOf(ck, p) = PositionOf(ck, p)

\* SourceCheckpoint::check_compatibility: every partition of the delta
\* starts at the current position of the checkpoint.
CheckCompatibility(ck, delta) ==
    \A p \in DOMAIN delta : PositionOf(ck, p) = delta[p].from

\* SourceCheckpoint::try_apply_delta: all partitions move to `to`, or none.
TryApplyDelta(ck, delta) ==
    IF CheckCompatibility(ck, delta)
    THEN [ok |-> TRUE,
          ck |-> [p \in DOMAIN ck \cup DOMAIN delta |->
                    IF p \in DOMAIN delta THEN delta[p].to ELSE ck[p]]]
    ELSE [ok |-> FALSE, ck |-> ck]

\* SourceCheckpointDelta::get_source_checkpoint: the `to` positions.
GetSourceCheckpoint(delta) == [p \in DOMAIN delta |-> delta[p].to]


(***************************************************************************)
(* Wire format of a checkpoint delta (serde_json::to_string in the         *)
(* indexer and the publisher, serde_json::from_str in the metastore        *)
(* service): the source id and one <<partition, from, to>> entry per       *)
(* partition, in partition order.                                          *)
(***************************************************************************)
SourceId == "source"

IndexId == "index"

IndexCheckpointDelta(source_delta) ==
    [source_id |-> SourceId, source_delta |-> source_delta]

RECURSIVE SerializePartitions(_, _)
SerializePartitions(source_delta, todo) ==
    IF todo = << >> THEN << >>
    ELSE << << Head(todo), source_delta[Head(todo)].from,
               source_delta[Head(todo)].to >> >>
         \o SerializePartitions(source_delta, Tail(todo))

SerializeDelta(index_delta) ==
    [source_id |-> index_delta.source_id,
     per_partition |->
        SerializePartitions(index_delta.source_delta,
                            SortedPartitions(DOMAIN index_delta.source_delta))]

DeserializeDelta(json) ==
    [source_id |-> json.source_id,
     source_delta |->
        [p \in {json.per_partition[i][1] : i \in DOMAIN json.per_partition} |->
            LET i == CHOOSE j \in DOMAIN json.per_partition :
                        json.per_partition[j][1] = p
            IN  [from |-> json.per_partition[i][2],
                 to |-> json.per_partition[i][3]]]]

\* Option::map over the two conversions.
SerializeDeltaOpt(delta_opt) ==
    IF IsSome(delta_opt) THEN Some(SerializeDelta(delta_opt[1])) ELSE None

DeserializeDeltaOpt(json_opt) ==
    IF IsSome(json_opt) THEN Some(DeserializeDelta(json_opt[1])) ELSE None

(***************************************************************************)
(* The metastore of one index (quickwit_metastore): the state of every     *)
(* split row and the checkpoint of the source.                             *)
(***************************************************************************)
Absent == "Absent"

Staged == "Staged"

Published == "Published"

MarkedForDeletion == "MarkedForDeletion"

SeqRange(seq) == {seq[i] : i \in DOMAIN seq}

NoPartition == 0 - 1

NoPosition == 0 - 2

ReplyOk ==
    [ok |-> TRUE, error |-> "", partition |-> NoPartition,
     expected |-> NoPosition, got_from |-> NoPosition, got_to |-> NoPosition]

ReplyError(kind) ==
    [ok |-> FALSE, error |-> kind, partition |-> NoPartition,
     expected |-> NoPosition, got_from |-> NoPosition, got_to |-> NoPosition]

\* MetastoreError::IncompatibleCheckpointDelta { partition, expected, got }
ReplyIncompatible(ck, delta) ==
    LET p == CHOOSE q \in DOMAIN delta :
                /\ PositionOf(ck, q) # delta[q].from
                /\ \A r \in DOMAIN delta :
                      PositionOf(ck, r) # delta[r].from => q <= r
    IN  [ok |-> FALSE, error |-> "IncompatibleCheckpointDelta",
         partition |-> p, expected |-> PositionOf(ck, p),
         got_from |-> delta[p].from, got_to |-> delta[p].to]

\* Metastore::stage_split: the split id must be new in the index.
StageSplitOp(splits, split_id) ==
    IF splits[split_id] = Absent
    THEN [reply |-> ReplyOk, splits |-> [splits EXCEPT ![split_id] = Staged]]
    ELSE [reply |-> ReplyError("InternalError"), splits |-> splits]

\* A mutation of PublishNewSplits: a split in any state but Absent is
\* accepted as a new split.
RECURSIVE PublishNewSplitsAnyState(_, _)
PublishNewSplitsAnyState(splits, todo) ==
    IF todo = << >> THEN [reply |-> ReplyOk, splits |-> splits]
    ELSE IF splits[Head(todo)] = Absent
         THEN [reply |-> ReplyError("SplitDoesNotExist"), splits |-> splits]
    ELSE PublishNewSplitsAnyState([splits EXCEPT ![Head(todo)] = Published],
                                  Tail(todo))

\* publish_splits, step 1: every new split is Staged and becomes Published.
RECURSIVE PublishNewSplits(_, _)
PublishNewSplits(splits, todo) ==
    IF todo = << >> THEN [reply |-> ReplyOk, splits |-> splits]
    ELSE IF splits[Head(todo)] = Absent
         THEN [reply |-> ReplyError("SplitDoesNotExist"), splits |-> splits]
    ELSE IF splits[Head(todo)] # Staged
         THEN [reply |-> ReplyError("SplitIsNotStaged"), splits |-> splits]
    ELSE PublishNewSplits([splits EXCEPT ![Head(todo)] = Published], Tail(todo))

\* publish_splits, step 2: every replaced split is Published or
\* MarkedForDeletion and becomes MarkedForDeletion.
RECURSIVE MarkReplacedSplits(_, _)
MarkReplacedSplits(splits, todo) ==
    IF todo = << >> THEN [reply |-> ReplyOk, splits |-> splits]
    ELSE IF splits[Head(todo)] = Absent
         THEN [reply |-> ReplyError("SplitDoesNotExist"), splits |-> splits]
    ELSE IF splits[Head(todo)] \notin {Published, MarkedForDeletion}
         THEN [reply |-> ReplyError("InternalError"), splits |-> splits]
    ELSE MarkReplacedSplits([splits EXCEPT ![Head(todo)] = MarkedForDeletion],
                            Tail(todo))

\* publish_splits, steps 1 to 3 on a working copy of the index.
PublishSplitsSteps(splits, ck, split_ids, replaced_split_ids, delta_opt) ==
    LET new == PublishNewSplits(splits, split_ids)
        replaced == MarkReplacedSplits(new.splits, replaced_split_ids)
        applied == IF IsSome(delta_opt)
                   THEN TryApplyDelta(ck, delta_opt[1].source_delta)
                   ELSE [ok |-> TRUE, ck |-> ck]
    IN  IF ~new.reply.ok
        THEN [reply |-> new.reply, splits |-> new.splits, ck |-> ck]
        ELSE IF ~replaced.reply.ok
        THEN [reply |-> replaced.reply, splits |-> replaced.splits, ck |-> ck]
        ELSE IF ~applied.ok
        THEN [reply |-> ReplyIncompatible(ck, delta_opt[1].source_delta),
              splits |-> replaced.splits, ck |-> ck]
        ELSE [reply |-> ReplyOk, splits |-> replaced.splits, ck |-> applied.ck]

\* A mutation of PublishSplitsOp: the working copy is written back even
\* when a precondition failed.
PublishSplitsPartial(splits, ck, split_ids, replaced_split_ids, delta_opt) ==
    PublishSplitsSteps(splits, ck, split_ids, replaced_split_ids, delta_opt)

\* Metastore::publish_splits, step 4: all changes are written, or none.
PublishSplitsOp(splits, ck, split_ids, replaced_split_ids, delta_opt) ==
    LET done == PublishSplitsSteps(splits, ck, split_ids, replaced_split_ids,
                                   delta_opt)
    IN  IF done.reply.ok THEN done
        ELSE [reply |-> done.reply, splits |-> splits, ck |-> ck]

\* Metastore::mark_splits_for_deletion: the rows that exist become
\* MarkedForDeletion; missing and already marked ones are left alone.
MarkSplitsForDeletionOp(splits, split_ids) ==
    [reply |-> ReplyOk,
     splits |-> [s \in DOMAIN splits |->
                    IF s \in split_ids /\ splits[s] # Absent
                    THEN MarkedForDeletion ELSE splits[s]]]

\* Metastore::delete_splits: every row that exists must be MarkedForDeletion;
\* the rows are removed, missing ones are ignored.
DeleteSplitsOp(splits, split_ids) ==
    IF \E s \in split_ids : splits[s] \in {Staged, Published}
    THEN [reply |-> ReplyError("InternalError"), splits |-> splits]
    ELSE [reply |-> ReplyOk,
          splits |-> [s \in DOMAIN splits |->
                        IF s \in split_ids THEN Absent ELSE splits[s]]]

\* A mutation of MetastoreServicePublishSplits: the decoded delta is not
\* handed to the metastore.
MetastoreServicePublishSplitsNoDelta(splits, ck, request) ==
    PublishSplitsOp(splits, ck, request.split_ids, request.replaced_split_ids,
                    None)

\* MetastoreService::publish_splits (Local): decodes the delta of the
\* request and calls the metastore.
MetastoreServicePublishSplits(splits, ck, request) ==
    PublishSplitsOp(splits, ck, request.split_ids, request.replaced_split_ids,
                    DeserializeDeltaOpt(request.index_checkpoint_delta_serialized_json))


(***************************************************************************)
(* State.                                                                  *)
(***************************************************************************)
VARIABLES
    \* the metastore and the storage of the index
    ms_splits,        \* split id -> Absent, Staged, Published, MarkedForDeletion
    ms_checkpoint,    \* SourceCheckpoint of the source: partition -> position
    storage,          \* split id -> length of <index_root>/<index_id>/<id>.split, 0 if none
    ever_staged,      \* history: the split ids stage_split has recorded
    ever_marked,      \* history: the split ids that have been MarkedForDeletion
    \* the publisher actor
    pub_status,       \* "running" or "Failure"
    pub_has_source,   \* source_mailbox_opt.is_some()
    pub_counters,     \* PublisherCounters
    pub_obs,          \* history: Some(the SplitUpdate handled by the latest step), else None
    \* the garbage collector
    gc_pc,            \* "idle", "sweep", "list", "objects"
    gc_dry_run,       \* the dry_run argument of the run
    gc_zero_grace,    \* the run was given a deletion grace period of zero
    gc_todo,          \* the splits the run has listed for deletion
    gc_done,          \* the splits of the run whose object has been deleted
    gc_failed,        \* the splits of the run whose storage delete failed
    gc_deleted,       \* history: the splits whose object a run has deleted
    gc_removed,       \* history: the splits whose row a run has removed
    \* the checkpoint-delta algebra
    dl_pc, dl_d1, dl_d2, dl_ck, dl_ext, dl_lhs, dl_rhs,
    \* the source and the indexer of the pipeline
    src_pos,          \* the position the source has read up to
    src_emitted,      \* the number of RawDocBatches the source has sent
    idx_status,       \* "running", "Success" or "Failure"
    idx_workbench,    \* indexing_workbench_opt
    idx_counters,     \* IndexerCounters
    idx_timeouts,     \* the workbench ids of the CommitTimeouts scheduled
    idx_next_id,      \* the next fresh split id and workbench id
    idx_scheduled,    \* the workbench ids of the schedule_self_msg calls, in order
    idx_finalized,    \* the number of times Indexer::finalize has run
    \* the packager mailbox, the uploader, its tasks and the sequencer
    pk_queue,         \* the IndexedSplitBatches sent by the indexer
    up_pc,            \* "idle", "acquire" (waiting for a permit) or "Killed"
    up_batch,         \* the PackagedSplitBatch the uploader is handling
    permits,          \* CONCURRENT_UPLOAD_PERMITS
    tasks,            \* the spawned upload tasks, by batch number
    seq_queue,        \* the sequencer's queue of receivers, by batch number
    chan,             \* the oneshot channels, by batch number
    killed,           \* the kill switch of the pipeline
    \* history of the pipeline
    init_checkpoint,  \* the checkpoint of the source when the pipeline started
    idx_obs,          \* Some(the latest batch handled, whether it extended)
    publish_log,      \* the publish_splits calls of the pipeline, in order
    done_early,       \* <<c, b>>: batch c was uploaded while b < c was not
    stage_failed,     \* the split ids whose stage_split failed
    \* the uploaders of the process (permits is their semaphore)
    ul_pc,            \* uploader -> "idle", "acquire" or "Killed"
    ul_received,      \* uploader -> the number of batches it has received
    ul_running,       \* uploader -> the number of its tasks in progress
    ul_killed,        \* pipeline -> its kill switch is dead
    idx_received,     \* the number of documents the current workbench was sent
    \* the Kafka source, its consumer and the indexer it feeds
    kf_status,        \* "running" or "Failure"
    kf_state,         \* KafkaSourceState: assigned_partitions, current_positions
    kf_consumer,      \* the consumer: assigned partition -> next offset to fetch
    kf_batch,         \* the BatchBuilder of the emit_batches call in progress
    kf_mailbox,       \* the RawDocBatches sent to the indexer and not handled yet
    kf_workbench,     \* the indexer's workbench: Some(docs, checkpoint_delta) or None
    kf_checkpoint,    \* the SourceCheckpoint of the source in the metastore
    kf_generation,    \* history: the number of revocations so far
    kf_expected,      \* history: partition -> the position its next delta must start from
    kf_obs,           \* history: Some(the assignment, batch or publication of the latest step)
    \* the slice cache
    sc_capacity,      \* the capacity the SliceCache was created with
    sc_cache,         \* the entries of the cache, the least recently used first
    sc_obs,           \* history: Some(the put or the get of the latest step)
    \* the multipart put of the S3 storage
    mp_pc,            \* the position of put_multi_part
    mp_num_parts,     \* the number of parts of the payload
    mp_upload_id,     \* Some(the upload id CreateMultipartUpload returned)
    mp_parts,         \* part number -> the state of its upload
    mp_calls,         \* history: the requests sent to S3 for the upload
    mp_result,        \* Some(what the put returned)
    mp_s3,            \* the bucket: the object at the key, the multipart upload
    mp_obs,           \* history: Some(the request of the latest step, its attempts)
    mp_kill_switch,   \* the kill switch of the pipeline of the put
    \* the deletes of the local file storage and of the S3 storage
    st_files,         \* LocalFileStorage: the paths of the files under the root
    st_dirs,          \* LocalFileStorage: the directories, the root is << >>
    st_objects,       \* S3: the keys of the objects of the bucket
    st_obs,           \* history: Some(the put or the delete of the latest step)
    \* the detection of the S3 region
    rg_env,           \* the environment: variable -> None or Some(value)
    rg_config_file,   \* what the AWS config file gives for the region
    rg_ec2,           \* what the EC2 instance metadata service answers
    rg_cache,         \* CACHED_S3_DEFAULT_REGION: None or Some(region)
    rg_obs,           \* history: Some(the latest creation of a storage)
    \* the metastore behind the gRPC MetastoreService
    gr_index_exists,  \* the index of the calls exists in the metastore
    gr_splits,        \* its splits: split id -> state
    gr_checkpoint,    \* the checkpoint of its source
    gr_obs            \* history: Some(the latest call, as Local and gRPC return it)

msVars == << ms_splits, ms_checkpoint, storage, ever_staged, ever_marked >>

pubVars == << pub_status, pub_has_source, pub_counters, pub_obs >>

dlVars == << dl_pc, dl_d1, dl_d2, dl_ck, dl_ext, dl_lhs, dl_rhs >>

gcVars == << gc_pc, gc_dry_run, gc_zero_grace, gc_todo, gc_done, gc_failed,
            gc_deleted, gc_removed >>

idxVars == << src_pos, src_emitted, idx_status, idx_workbench, idx_counters,
             idx_timeouts, idx_next_id, idx_scheduled, idx_finalized >>

upVars == << pk_queue, up_pc, up_batch, permits, tasks, seq_queue, chan,
            killed >>

histVars == << init_checkpoint, idx_obs, publish_log, done_early,
              stage_failed >>

pipeVars == << idxVars, upVars, histVars, idx_received >>

ulVars == << ul_pc, ul_received, ul_running, ul_killed >>

kfVars == << kf_status, kf_state, kf_consumer, kf_batch, kf_mailbox,
            kf_workbench, kf_checkpoint, kf_generation, kf_expected, kf_obs >>

\* The variables of the specifications of the sources and of the storage.
scVars == << sc_capacity, sc_cache, sc_obs >>

mpVars == << mp_pc, mp_num_parts, mp_upload_id, mp_parts, mp_calls,
            mp_result, mp_s3, mp_obs, mp_kill_switch >>

stVars == << st_files, st_dirs, st_objects, st_obs >>

\* The variables of the specifications of the storage deletes and after.
rgVars == << rg_env, rg_config_file, rg_ec2, rg_cache, rg_obs >>

grVars == << gr_index_exists, gr_splits, gr_checkpoint, gr_obs >>

tailVars == << stVars, rgVars, grVars >>

extVars == << kfVars, scVars, mpVars, tailVars >>

vars == << msVars, pubVars, gcVars, dlVars, pipeVars, ulVars, extVars >>

\* What the actions of each specification leave alone.
metastoreOthers == << gcVars, dlVars, pipeVars, ulVars, extVars >>
gcOthers == << pubVars, dlVars, pipeVars, ulVars, extVars >>
deltaOthers == << msVars, pubVars, gcVars, pipeVars, ulVars, extVars >>

(***************************************************************************)
(* The publisher (quickwit-indexing/src/actors/publisher.rs).              *)
(***************************************************************************)
SplitMetadata(split_id, footer_end) ==
    [split_id |-> split_id, footer_end |-> footer_end]

SplitUpdate(new_splits, replaced_split_ids, checkpoint_delta_opt) ==
    [index_id |-> IndexId, new_splits |-> new_splits,
     replaced_split_ids |-> replaced_split_ids,
     checkpoint_delta_opt |-> checkpoint_delta_opt]

SplitIdsOf(new_splits) ==
    [i \in DOMAIN new_splits |-> new_splits[i].split_id]

\* A mutation of PublishSplitsRequestOf: the replaced split ids are dropped.
PublishSplitsRequestNoReplaced(split_update) ==
    [index_id |-> split_update.index_id,
     split_ids |-> SplitIdsOf(split_update.new_splits),
     replaced_split_ids |-> << >>,
     index_checkpoint_delta_serialized_json |->
        SerializeDeltaOpt(split_update.checkpoint_delta_opt)]

\* A mutation of PublishSplitsRequestOf: the checkpoint delta is dropped.
PublishSplitsRequestNoDelta(split_update) ==
    [index_id |-> split_update.index_id,
     split_ids |-> SplitIdsOf(split_update.new_splits),
     replaced_split_ids |-> split_update.replaced_split_ids,
     index_checkpoint_delta_serialized_json |-> None]

\* The PublishSplitsRequest built from a SplitUpdate.
PublishSplitsRequestOf(split_update) ==
    [index_id |-> split_update.index_id,
     split_ids |-> SplitIdsOf(split_update.new_splits),
     replaced_split_ids |-> split_update.replaced_split_ids,
     index_checkpoint_delta_serialized_json |->
        SerializeDeltaOpt(split_update.checkpoint_delta_opt)]

DefaultPublisherCounters ==
    [num_published_splits |-> 0, num_replace_operations |-> 0]

\* Handler<SplitUpdate>::handle: what one call does to the metastore, to the
\* source mailbox, to the merge planner mailbox and to the counters.  A
\* failed publish_splits returns at once with a Failure.
PublisherOutcome(split_update, splits, ck, has_source, counters) ==
    LET request == PublishSplitsRequestOf(split_update)
        res == MetastoreServicePublishSplits(splits, ck, request)
    IN  [request |-> request,
         reply |-> res.reply,
         splits |-> res.splits,
         ck |-> res.ck,
         status |-> IF res.reply.ok THEN "running" ELSE "Failure",
         suggest_truncate |->
            IF res.reply.ok /\ has_source /\ IsSome(split_update.checkpoint_delta_opt)
            THEN Some(GetSourceCheckpoint(
                        split_update.checkpoint_delta_opt[1].source_delta))
            ELSE None,
         new_splits |->
            IF res.reply.ok THEN Some(split_update.new_splits) ELSE None,
         counters |->
            IF res.reply.ok
            THEN [counters EXCEPT !.num_published_splits = @ + 1]
            ELSE counters]

MarkedIn(splits) == {s \in DOMAIN splits : splits[s] = MarkedForDeletion}


(***************************************************************************)
(* Values the other specifications give to the variables they leave alone. *)
(***************************************************************************)
DeltaOff ==
    /\ dl_pc = "off"
    /\ dl_d1 = EmptyMap
    /\ dl_d2 = EmptyMap
    /\ dl_ck = EmptyMap
    /\ dl_ext = None
    /\ dl_lhs = None
    /\ dl_rhs = None

KafkaOff ==
    /\ kf_status = "off"
    /\ kf_state = None
    /\ kf_consumer = EmptyMap
    /\ kf_batch = None
    /\ kf_mailbox = << >>
    /\ kf_workbench = None
    /\ kf_checkpoint = EmptyMap
    /\ kf_generation = 0
    /\ kf_expected = EmptyMap
    /\ kf_obs = None

\* The variables of the specifications of the sources and of the storage
\* while another specification runs.
SliceCacheOff ==
    /\ sc_capacity = 0
    /\ sc_cache = << >>
    /\ sc_obs = None

MultipartOff ==
    /\ mp_pc = "off"
    /\ mp_num_parts = 0
    /\ mp_upload_id = None
    /\ mp_parts = << >>
    /\ mp_calls = << >>
    /\ mp_result = None
    /\ mp_s3 = << >>
    /\ mp_obs = None
    /\ mp_kill_switch = << >>

StorageOff ==
    /\ st_files = {}
    /\ st_dirs = {}
    /\ st_objects = {}
    /\ st_obs = None

RegionOff ==
    /\ rg_env = << >>
    /\ rg_config_file = << >>
    /\ rg_ec2 = << >>
    /\ rg_cache = None
    /\ rg_obs = None

GrpcOff ==
    /\ gr_index_exists = FALSE
    /\ gr_splits = << >>
    /\ gr_checkpoint = << >>
    /\ gr_obs = None

TailOff ==
    /\ StorageOff
    /\ RegionOff
    /\ GrpcOff

ExtOff ==
    /\ KafkaOff
    /\ SliceCacheOff
    /\ MultipartOff
    /\ TailOff

UploadersOff ==
    /\ ul_pc = EmptyMap
    /\ ul_received = EmptyMap
    /\ ul_running = EmptyMap
    /\ ul_killed = EmptyMap

GcOff ==
    /\ gc_pc = "off"
    /\ gc_dry_run = FALSE
    /\ gc_zero_grace = FALSE
    /\ gc_todo = {}
    /\ gc_done = {}
    /\ gc_failed = {}
    /\ gc_deleted = {}
    /\ gc_removed = {}

PipelineOff ==
    /\ src_pos = Beginning
    /\ src_emitted = 0
    /\ idx_status = "off"
    /\ idx_workbench = None
    /\ idx_counters = None
    /\ idx_timeouts = {}
    /\ idx_next_id = 0
    /\ idx_scheduled = << >>
    /\ idx_finalized = 0
    /\ pk_queue = << >>
    /\ up_pc = "off"
    /\ up_batch = None
    /\ permits = 0
    /\ tasks = << >>
    /\ seq_queue = << >>
    /\ chan = << >>
    /\ killed = FALSE
    /\ init_checkpoint = EmptyMap
    /\ idx_obs = None
    /\ publish_log = << >>
    /\ done_early = {}
    /\ stage_failed = {}
    /\ idx_received = 0

(***************************************************************************)
(* SpecMetastore: the metastore of one index under its four split          *)
(* operations, and a publisher that is handed SplitUpdates directly (as in *)
(* test_publisher_publish_operation and test_publisher_replace_operation). *)
(***************************************************************************)
MetaSplitIds == {1, 2, 3}

DefaultPartition == 0

MetaPositions == {Beginning, 5, 7, 9}

\* Cap on PublisherCounters.num_published_splits.
MaxPublishes == 1

MetaSourceDeltas ==
    {[p \in {DefaultPartition} |-> [from |-> f, to |-> t]] :
        <<f, t>> \in {ft \in MetaPositions \X MetaPositions : ft[1] < ft[2]}}

MetaDeltaOpts ==
    {None} \cup {Some(IndexCheckpointDelta(d)) : d \in MetaSourceDeltas}

MetaNewSplits ==
    {<< >>} \cup {<< SplitMetadata(s, 0) >> : s \in MetaSplitIds}

MetaReplaced ==
    {<< >>} \cup {<< a, b >> : <<a, b>> \in
                    {ab \in MetaSplitIds \X MetaSplitIds : ab[1] < ab[2]}}

\* The SplitUpdates handed to the publisher: new splits of an indexing
\* pipeline (a delta, nothing replaced) and of a merge pipeline (no delta,
\* the merged splits replaced), and their combinations.
MetaUpdates ==
    {SplitUpdate(n, r, d) : <<n, r, d>> \in
        {nrd \in MetaNewSplits \X MetaReplaced \X MetaDeltaOpts :
            SeqRange(SplitIdsOf(nrd[1])) \cap SeqRange(nrd[2]) = {}}}

InitMetastore ==
    /\ ExtOff
    /\ ms_splits = [s \in MetaSplitIds |-> Absent]
    /\ ms_checkpoint = EmptyMap
    /\ storage = [s \in MetaSplitIds |-> 0]
    /\ ever_staged = {}
    /\ ever_marked = {}
    /\ pub_status = "running"
    /\ pub_has_source \in BOOLEAN
    /\ pub_counters = DefaultPublisherCounters
    /\ pub_obs = None
    /\ DeltaOff
    /\ UploadersOff
    /\ GcOff
    /\ PipelineOff

\* stage_split of any split id by a client of the metastore: the call is
\* refused when the index has a row of that id, and inserts a Staged row
\* otherwise, also when a row of that id has been deleted before.
MsStageSplit(s) ==
    /\ ms_splits' = StageSplitOp(ms_splits, s).splits
    /\ ever_staged' = IF StageSplitOp(ms_splits, s).reply.ok
                      THEN ever_staged \cup {s} ELSE ever_staged
    /\ pub_obs' = None
    /\ UNCHANGED << ms_checkpoint, storage, ever_marked, pub_status,
                    pub_has_source, pub_counters >>
    /\ UNCHANGED metastoreOthers

MsMarkSplitsForDeletion(ids) ==
    /\ ms_splits' = MarkSplitsForDeletionOp(ms_splits, ids).splits
    /\ ever_marked' = ever_marked \cup MarkedIn(ms_splits')
    /\ pub_obs' = None
    /\ UNCHANGED << ms_checkpoint, storage, ever_staged, pub_status,
                    pub_has_source, pub_counters >>
    /\ UNCHANGED metastoreOthers

MsDeleteSplits(ids) ==
    /\ ms_splits' = DeleteSplitsOp(ms_splits, ids).splits
    /\ pub_obs' = None
    /\ UNCHANGED << ms_checkpoint, storage, ever_staged, ever_marked,
                    pub_status, pub_has_source, pub_counters >>
    /\ UNCHANGED metastoreOthers

\* `let _ = ctx.send_message(source_mailbox, SuggestTruncate(..)).await`: the
\* result of the send (an error when the source has dropped its inbox) is
\* dropped, and the handler goes on.
SuggestTruncateChecked(status, send_ok) ==
    IF send_ok THEN status ELSE "Failure"

SuggestTruncateSent(status, send_ok) == status

\* send_ok: whether the source still holds its inbox when the publisher sends
\* to it; it matters only when something is sent.
MsPublisherHandle(u, send_ok) ==
    /\ pub_status = "running"
    /\ pub_counters.num_published_splits < MaxPublishes
    /\ LET out == PublisherOutcome(u, ms_splits, ms_checkpoint,
                                   pub_has_source, pub_counters)
       IN  /\ ~send_ok => IsSome(out.suggest_truncate)
           /\ ms_splits' = out.splits
           /\ ms_checkpoint' = out.ck
           /\ ever_marked' = ever_marked \cup MarkedIn(out.splits)
           /\ pub_status' = IF IsSome(out.suggest_truncate)
                            THEN SuggestTruncateSent(out.status, send_ok)
                            ELSE out.status
           /\ pub_counters' = out.counters
           /\ pub_obs' = Some([update |-> u,
                               pre_splits |-> ms_splits,
                               pre_ck |-> ms_checkpoint,
                               request |-> out.request,
                               reply |-> out.reply,
                               suggest_truncate |-> out.suggest_truncate,
                               source_received |->
                                  IsSome(out.suggest_truncate) /\ send_ok,
                               new_splits |-> out.new_splits])
    /\ UNCHANGED << storage, ever_staged, pub_has_source >>
    /\ UNCHANGED metastoreOthers

\* Publisher::new: the pipeline is spawned again with a new publisher.
MsPublisherNew ==
    /\ \/ pub_status = "Failure"
       \/ pub_counters # DefaultPublisherCounters
    /\ pub_status' = "running"
    /\ pub_counters' = DefaultPublisherCounters
    /\ pub_obs' = None
    /\ UNCHANGED << msVars, pub_has_source >>
    /\ UNCHANGED metastoreOthers

NextMetastore ==
    \/ \E s \in MetaSplitIds : MsStageSplit(s)
    \/ \E ids \in SUBSET MetaSplitIds : MsMarkSplitsForDeletion(ids)
    \/ \E ids \in SUBSET MetaSplitIds : MsDeleteSplits(ids)
    \/ \E u \in MetaUpdates, send_ok \in BOOLEAN : MsPublisherHandle(u, send_ok)
    \/ MsPublisherNew

SpecMetastore == InitMetastore /\ [][NextMetastore]_vars


(***************************************************************************)
(* Claims checked under SpecMetastore.                                     *)
(***************************************************************************)
\* The preconditions of publish_splits, stated on the sets of ids.
PublishPreconditions(splits, ck, u) ==
    /\ \A s \in SeqRange(SplitIdsOf(u.new_splits)) : splits[s] = Staged
    /\ \A s \in SeqRange(u.replaced_split_ids) :
          splits[s] \in {Published, MarkedForDeletion}
    /\ IsSome(u.checkpoint_delta_opt) =>
          \A p \in DOMAIN u.checkpoint_delta_opt[1].source_delta :
             PositionOf(ck, p) = u.checkpoint_delta_opt[1].source_delta[p].from

SplitPreconditions(splits, u) ==
    /\ \A s \in SeqRange(SplitIdsOf(u.new_splits)) : splits[s] = Staged
    /\ \A s \in SeqRange(u.replaced_split_ids) :
          splits[s] \in {Published, MarkedForDeletion}

\* C5: publish_splits is all-or-nothing.  When a precondition fails (a new
\* split is not Staged, a replaced split is neither Published nor
\* MarkedForDeletion, or the `from` of the delta is not the checkpoint
\* position of some partition) the call fails and neither a split state nor
\* a checkpoint position changes; when only the delta is at fault the error
\* is IncompatibleCheckpointDelta (checkpoint 7, delta 5..9).
C5_PublishAllOrNothing ==
    IsSome(pub_obs) =>
        LET o == pub_obs[1]
        IN  /\ ~PublishPreconditions(o.pre_splits, o.pre_ck, o.update) =>
                  /\ ~o.reply.ok
                  /\ ms_splits = o.pre_splits
                  /\ ms_checkpoint = o.pre_ck
            /\ ( /\ SplitPreconditions(o.pre_splits, o.update)
                 /\ ~PublishPreconditions(o.pre_splits, o.pre_ck, o.update) ) =>
                  /\ o.reply.error = "IncompatibleCheckpointDelta"
                  /\ o.reply.expected = PositionOf(o.pre_ck, o.reply.partition)

\* The scenario of C5: checkpoint 7, a Staged new split, delta 5..9.
C5_Witness ==
    /\ IsSome(pub_obs)
    /\ PositionOf(pub_obs[1].pre_ck, DefaultPartition) = 7
    /\ Len(pub_obs[1].update.new_splits) = 1
    /\ pub_obs[1].pre_splits[pub_obs[1].update.new_splits[1].split_id] = Staged
    /\ IsSome(pub_obs[1].update.checkpoint_delta_opt)
    /\ pub_obs[1].update.checkpoint_delta_opt[1].source_delta[DefaultPartition]
          = [from |-> 5, to |-> 9]
    /\ pub_obs[1].reply.error = "IncompatibleCheckpointDelta"
    /\ pub_obs[1].reply.expected = 7
    /\ pub_obs[1].reply.got_from = 5
    /\ ms_splits = pub_obs[1].pre_splits
    /\ PositionOf(ms_checkpoint, DefaultPartition) = 7

\* C6 as stated: a split id that has been MarkedForDeletion is never
\* Published again, whatever stage_split, publish_splits,
\* mark_splits_for_deletion and delete_splits calls follow.
C6_MarkedNeverPublishedAgain ==
    \A s \in ever_marked : ms_splits[s] # Published

\* C6, amended: no metastore operation moves a MarkedForDeletion row to
\* Published or to Staged; the row stays MarkedForDeletion until
\* delete_splits removes it, and a row becomes Published only from Staged
\* (so a marked split id is Published again only after delete_splits has
\* removed its row and stage_split has inserted the id anew).
C6_MarkedRowNeverPublished ==
    [][\A s \in MetaSplitIds :
          /\ ms_splits[s] = MarkedForDeletion
                => ms_splits'[s] \in {MarkedForDeletion, Absent}
          /\ (ms_splits'[s] = Published /\ ms_splits[s] # Published)
                => ms_splits[s] = Staged]_vars

\* A publish naming a marked split as a new split was refused, and another
\* marked split has been deleted.
C6_Witness ==
    /\ IsSome(pub_obs)
    /\ Len(pub_obs[1].update.new_splits) = 1
    /\ pub_obs[1].pre_splits[pub_obs[1].update.new_splits[1].split_id]
          = MarkedForDeletion
    /\ pub_obs[1].update.new_splits[1].split_id \in ever_marked
    /\ ~pub_obs[1].reply.ok
    /\ \E s \in ever_marked : ms_splits[s] = Absent

\* The SplitUpdate of a merge: new splits, replaced splits, no delta, the new
\* splits Staged and the replaced ones Published.
IsReplaceOperation(o) ==
    /\ ~IsSome(o.update.checkpoint_delta_opt)
    /\ Len(o.update.new_splits) >= 1
    /\ Len(o.update.replaced_split_ids) >= 2
    /\ \A s \in SeqRange(SplitIdsOf(o.update.new_splits)) :
          o.pre_splits[s] = Staged
    /\ \A s \in SeqRange(o.update.replaced_split_ids) :
          o.pre_splits[s] = Published

\* C8: publishing a SplitUpdate with new splits, replaced splits and no
\* delta, the new ones Staged and the replaced ones Published, leaves the new
\* splits Published, the replaced ones MarkedForDeletion and the checkpoint
\* unchanged; the request the metastore receives carries the new ids, the
\* replaced ids and no delta, as they are in the SplitUpdate.
C8_ReplaceOperation ==
    (IsSome(pub_obs) /\ IsReplaceOperation(pub_obs[1])) =>
        LET o == pub_obs[1]
        IN  /\ o.reply.ok
            /\ \A s \in SeqRange(SplitIdsOf(o.update.new_splits)) :
                  ms_splits[s] = Published
            /\ \A s \in SeqRange(o.update.replaced_split_ids) :
                  ms_splits[s] = MarkedForDeletion
            /\ \A s \in DOMAIN ms_splits :
                  s \notin SeqRange(SplitIdsOf(o.update.new_splits))
                            \cup SeqRange(o.update.replaced_split_ids)
                  => ms_splits[s] = o.pre_splits[s]
            /\ ms_checkpoint = o.pre_ck
            /\ o.request.index_id = o.update.index_id
            /\ o.request.split_ids = SplitIdsOf(o.update.new_splits)
            /\ o.request.replaced_split_ids = o.update.replaced_split_ids
            /\ o.request.index_checkpoint_delta_serialized_json = None

\* The scenario of C8: new=[3], replaced=[1,2].
C8_Witness ==
    /\ IsSome(pub_obs)
    /\ IsReplaceOperation(pub_obs[1])
    /\ SplitIdsOf(pub_obs[1].update.new_splits) = << 3 >>
    /\ pub_obs[1].update.replaced_split_ids = << 1, 2 >>
    /\ ms_splits = [s \in MetaSplitIds |->
                        IF s = 3 THEN Published ELSE MarkedForDeletion]


(***************************************************************************)
(* Values SpecDelta gives to the variables of the metastore and of the     *)
(* publisher.                                                              *)
(***************************************************************************)
MetastoreOff ==
    /\ ms_splits = [s \in MetaSplitIds |-> Absent]
    /\ ms_checkpoint = EmptyMap
    /\ storage = [s \in MetaSplitIds |-> 0]
    /\ ever_staged = {}
    /\ ever_marked = {}

PublisherOff ==
    /\ pub_status = "off"
    /\ pub_has_source = FALSE
    /\ pub_counters = DefaultPublisherCounters
    /\ pub_obs = None

\* C21: the publisher sends SuggestTruncate to the source exactly when
\* publish_splits has succeeded for a SplitUpdate that carries a checkpoint
\* delta and the publisher holds a source mailbox; the checkpoint it sends
\* holds, for each partition of that delta, the `to` position of the
\* partition; and when the message cannot be delivered the publisher keeps
\* running, hands the new splits to the merge planner and counts the publish.
C21_SuggestTruncateAfterPublish ==
    IsSome(pub_obs) =>
        LET o == pub_obs[1]
            d == o.update.checkpoint_delta_opt
        IN  /\ IsSome(o.suggest_truncate) <=>
                  (o.reply.ok /\ pub_has_source /\ IsSome(d))
            /\ IsSome(o.suggest_truncate) =>
                  /\ DOMAIN o.suggest_truncate[1] = DOMAIN d[1].source_delta
                  /\ \A p \in DOMAIN d[1].source_delta :
                        /\ o.suggest_truncate[1][p] = d[1].source_delta[p].to
                        /\ PositionOf(ms_checkpoint, p) = d[1].source_delta[p].to
                  /\ \A s \in SeqRange(SplitIdsOf(o.update.new_splits)) :
                        ms_splits[s] = Published
                  /\ pub_status = "running"
                  /\ o.new_splits = Some(o.update.new_splits)
                  /\ pub_counters.num_published_splits >= 1

\* A publish of split 1 with the delta 5..7 succeeds, position 7 is sent to
\* the source, the source has dropped its inbox, and the publisher runs on.
C21_Witness ==
    /\ IsSome(pub_obs)
    /\ pub_has_source
    /\ pub_obs[1].reply.ok
    /\ SplitIdsOf(pub_obs[1].update.new_splits) = << 1 >>
    /\ IsSome(pub_obs[1].update.checkpoint_delta_opt)
    /\ pub_obs[1].update.checkpoint_delta_opt[1].source_delta[DefaultPartition]
          = [from |-> 5, to |-> 7]
    /\ pub_obs[1].suggest_truncate = Some([p \in {DefaultPartition} |-> 7])
    /\ ~pub_obs[1].source_received
    /\ pub_status = "running"


(***************************************************************************)
(* SpecGC: garbage-collection runs beside the stage, store, publish and    *)
(* mark calls of the pipeline.  A run is the stage-timeout sweep, the      *)
(* listing of the splits marked for deletion, one storage delete per       *)
(* listed split, and one delete_splits call.                               *)
(***************************************************************************)
GcSplitIds == MetaSplitIds

SplitsIn(splits, state) == {s \in DOMAIN splits : splits[s] = state}

\* A mutation of GcRowsToDelete: every listed split is handed to
\* delete_splits, whether or not its object has been deleted.
GcRowsToDeleteAll(todo, done, failed) == todo \cup done \cup failed

\* The split ids a run hands to delete_splits: those whose storage delete
\* has succeeded.
GcRowsToDelete(todo, done, failed) == done

InitGC ==
    /\ ExtOff
    /\ MetastoreOff
    /\ PublisherOff
    /\ DeltaOff
    /\ UploadersOff
    /\ PipelineOff
    /\ gc_pc = "idle"
    /\ gc_dry_run = FALSE
    /\ gc_zero_grace = FALSE
    /\ gc_todo = {}
    /\ gc_done = {}
    /\ gc_failed = {}
    /\ gc_deleted = {}
    /\ gc_removed = {}

\* The uploader stages a split under a fresh id.
GcStageSplit(s) ==
    /\ s \notin ever_staged
    /\ ms_splits' = StageSplitOp(ms_splits, s).splits
    /\ ever_staged' = ever_staged \cup {s}
    /\ UNCHANGED << ms_checkpoint, storage, ever_marked, gcVars >>
    /\ UNCHANGED gcOthers

\* The uploader's put of a staged split lands; it may land after the
\* stage-timeout sweep has marked the split.
GcStoreSplit(s) ==
    /\ ms_splits[s] \in {Staged, MarkedForDeletion}
    /\ storage[s] = 0
    /\ storage' = [storage EXCEPT ![s] = 1]
    /\ UNCHANGED << ms_splits, ms_checkpoint, ever_staged, ever_marked,
                    gcVars >>
    /\ UNCHANGED gcOthers

\* The publisher publishes an uploaded split.
GcPublishSplit(s) ==
    /\ storage[s] > 0
    /\ LET done == PublishSplitsOp(ms_splits, ms_checkpoint, << s >>, << >>,
                                   None)
       IN  /\ done.reply.ok
           /\ ms_splits' = done.splits
    /\ UNCHANGED << ms_checkpoint, storage, ever_staged, ever_marked,
                    gcVars >>
    /\ UNCHANGED gcOthers

\* A published split is replaced and marked for deletion.
GcMarkSplit(s) ==
    /\ ms_splits[s] = Published
    /\ ms_splits' = MarkSplitsForDeletionOp(ms_splits, {s}).splits
    /\ ever_marked' = ever_marked \cup {s}
    /\ UNCHANGED << ms_checkpoint, storage, ever_staged, gcVars >>
    /\ UNCHANGED gcOthers

\* garbage_collect_index_cli: one run with a deletion grace period of zero.
GcStartCli(dry_run) ==
    /\ gc_pc = "idle"
    /\ gc_pc' = "sweep"
    /\ gc_dry_run' = dry_run
    /\ gc_zero_grace' = TRUE
    /\ gc_todo' = {}
    /\ gc_done' = {}
    /\ gc_failed' = {}
    /\ UNCHANGED << msVars, gc_deleted, gc_removed >>
    /\ UNCHANGED gcOthers

\* The GarbageCollector actor: one periodic run with its own grace periods.
GcStartActor ==
    /\ gc_pc = "idle"
    /\ gc_pc' = "sweep"
    /\ gc_dry_run' = FALSE
    /\ gc_zero_grace' = FALSE
    /\ gc_todo' = {}
    /\ gc_done' = {}
    /\ gc_failed' = {}
    /\ UNCHANGED << msVars, gc_deleted, gc_removed >>
    /\ UNCHANGED gcOthers

\* Step 1, the stage-timeout sweep: the Staged splits older than the staged
\* grace period (any of them, as time is not modelled) are marked.
GcSweepStaged(old) ==
    /\ gc_pc = "sweep"
    /\ old \subseteq SplitsIn(ms_splits, Staged)
    /\ IF gc_dry_run
       THEN /\ gc_todo' = old
            /\ UNCHANGED << ms_splits, ever_marked >>
       ELSE /\ ms_splits' = MarkSplitsForDeletionOp(ms_splits, old).splits
            /\ ever_marked' = ever_marked \cup old
            /\ UNCHANGED gc_todo
    /\ gc_pc' = "list"
    /\ UNCHANGED << ms_checkpoint, storage, ever_staged, gc_dry_run,
                    gc_zero_grace, gc_done, gc_failed, gc_deleted,
                    gc_removed >>
    /\ UNCHANGED gcOthers

\* Step 2, the listing: the MarkedForDeletion splits older than the deletion
\* grace period; all of them when the period is zero.  A dry run returns
\* the list and mutates nothing.
GcListMarked(old) ==
    /\ gc_pc = "list"
    /\ old \subseteq SplitsIn(ms_splits, MarkedForDeletion)
    /\ gc_zero_grace => old = SplitsIn(ms_splits, MarkedForDeletion)
    /\ gc_todo' = gc_todo \cup old
    /\ gc_pc' = IF gc_dry_run THEN "idle" ELSE "objects"
    /\ UNCHANGED << msVars, gc_dry_run, gc_zero_grace, gc_done, gc_failed,
                    gc_deleted, gc_removed >>
    /\ UNCHANGED gcOthers

\* Step 2, the storage delete of one listed split.  Deleting a missing
\* object succeeds; a storage error leaves the object in place.
GcDeleteObject(s, ok) ==
    /\ gc_pc = "objects"
    /\ s \in gc_todo
    /\ gc_todo' = gc_todo \ {s}
    /\ IF ok
       THEN /\ storage' = [storage EXCEPT ![s] = 0]
            /\ gc_done' = gc_done \cup {s}
            /\ gc_deleted' = gc_deleted \cup {s}
            /\ UNCHANGED gc_failed
       ELSE /\ gc_failed' = gc_failed \cup {s}
            /\ UNCHANGED << storage, gc_done, gc_deleted >>
    /\ UNCHANGED << ms_splits, ms_checkpoint, ever_staged, ever_marked,
                    gc_pc, gc_dry_run, gc_zero_grace, gc_removed >>
    /\ UNCHANGED gcOthers

\* Step 2, the end of the run: delete_splits removes the rows.
GcDeleteRows ==
    /\ gc_pc = "objects"
    /\ gc_todo = {}
    /\ LET rows == GcRowsToDelete(gc_todo, gc_done, gc_failed)
           done == DeleteSplitsOp(ms_splits, rows)
       IN  /\ ms_splits' = done.splits
           /\ gc_removed' = IF done.reply.ok
                            THEN gc_removed \cup
                                 {s \in rows : ms_splits[s] # Absent}
                            ELSE gc_removed
    /\ gc_pc' = "idle"
    /\ UNCHANGED << ms_checkpoint, storage, ever_staged, ever_marked,
                    gc_dry_run, gc_zero_grace, gc_todo, gc_done, gc_failed,
                    gc_deleted >>
    /\ UNCHANGED gcOthers

NextGC ==
    \/ \E s \in GcSplitIds : GcStageSplit(s)
    \/ \E s \in GcSplitIds : GcStoreSplit(s)
    \/ \E s \in GcSplitIds : GcPublishSplit(s)
    \/ \E s \in GcSplitIds : GcMarkSplit(s)
    \/ \E dry_run \in BOOLEAN : GcStartCli(dry_run)
    \/ GcStartActor
    \/ \E old \in SUBSET GcSplitIds : GcSweepStaged(old)
    \/ \E old \in SUBSET GcSplitIds : GcListMarked(old)
    \/ \E s \in GcSplitIds, ok \in BOOLEAN : GcDeleteObject(s, ok)
    \/ GcDeleteRows

SpecGC == InitGC /\ [][NextGC]_vars

\* C7: whenever a step of the garbage collector removes the metastore row
\* of a split, the storage delete of that split's object has been done in
\* an earlier step.
C7_ObjectDeletedBeforeRow ==
    [][\A s \in gc_removed' \ gc_removed : s \in gc_deleted]_vars

\* A run has deleted the object of an uploaded split and then removed its
\* row, while the storage delete of another listed split failed and its row
\* is still there.
C7_Witness ==
    /\ gc_pc = "idle"
    /\ \E s \in gc_removed :
           /\ s \in gc_done
           /\ ms_splits[s] = Absent
           /\ storage[s] = 0
    /\ \E s \in gc_failed :
           /\ ms_splits[s] = MarkedForDeletion
           /\ storage[s] > 0

(***************************************************************************)
(* Spec: the indexing pipeline of one index and one source.  The source    *)
(* hands RawDocBatches to the indexer; the indexer fills a workbench and   *)
(* commits it to the packager, or publishes its delta itself when it holds *)
(* no split; the uploader enqueues a receiver in the sequencer and spawns  *)
(* a task that stages and stores the splits; the publisher publishes the   *)
(* SplitUpdates in the order of the sequencer's queue.                     *)
(***************************************************************************)
\* The number of RawDocBatches the source sends.
MaxBatches == 3

\* indexing_settings.split_num_docs_target
SplitNumDocsTarget == 2

MAX_CONCURRENT_SPLIT_UPLOAD == 4

\* The number of positions the batch after `emitted` batches covers: three,
\* two, three, two and so on.
BatchStep(emitted) == IF emitted % 2 = 0 THEN 3 ELSE 2

\* The partition keys the doc mapper gives to valid documents.
DocKeys == {0, 1}

\* A document that does not parse, where valid ones carry their key.
ParsingError == 0 - 1

\* A document that lacks a required fast field (the timestamp).
MissingField == 0 - 2

\* The documents of one batch: one that does not parse, or one valid
\* document.
BatchDocs == {<< ParsingError >>} \cup {<< k >> : k \in DocKeys}

PipeSplitIds == 1 .. MaxBatches

RawDocBatch(docs, from, to) ==
    [docs |-> docs,
     checkpoint_delta |-> [p \in {DefaultPartition} |-> [from |-> from, to |-> to]]]

DefaultIndexerCounters ==
    [num_parse_errors |-> 0, num_missing_fields |-> 0, num_valid_docs |-> 0,
     num_splits_emitted |-> 0, num_split_batches_emitted |-> 0,
     num_docs_in_workbench |-> 0]

\* IndexerState::create_workbench.  The workbenches of an indexer are
\* created one after the other: the instant of the creation is told by
\* the rank of the workbench.
CreateWorkbench(workbench_id) ==
    [checkpoint_delta |-> IndexCheckpointDelta(EmptyMap),
     indexed_splits |-> EmptyMap,
     workbench_id |-> workbench_id,
     date_of_birth |-> workbench_id]

\* A mutation of GetOrCreateWorkbench: the CommitTimeout of the new
\* workbench is recorded as scheduled and never comes.
GetOrCreateWorkbenchTimeoutLost(st) ==
    IF IsSome(st.workbench) THEN st
    ELSE [st EXCEPT
            !.workbench = Some(CreateWorkbench(st.next_id.workbench)),
            !.scheduled = Append(@, st.next_id.workbench),
            !.next_id.workbench = @ + 1]

\* IndexerState::get_or_create_workbench: a new workbench takes a fresh id
\* and schedules its CommitTimeout.
GetOrCreateWorkbench(st) ==
    IF IsSome(st.workbench) THEN st
    ELSE [st EXCEPT
            !.workbench = Some(CreateWorkbench(st.next_id.workbench)),
            !.timeouts = @ \cup {st.next_id.workbench},
            !.scheduled = Append(@, st.next_id.workbench),
            !.next_id.workbench = @ + 1]

\* IndexerState::create_indexed_split: an empty split with a fresh id.
CreateIndexedSplit(split_id) ==
    [split_id |-> split_id, num_docs |-> 0, index_writer |-> << >>]

\* A mutation of GetOrCreateIndexedSplit: a split is created for the
\* document even when its partition has one.
GetOrCreateIndexedSplitVacant(partition, splits, split_id) ==
    [q \in DOMAIN splits \cup {partition} |->
       IF q = partition THEN CreateIndexedSplit(split_id) ELSE splits[q]]

\* IndexerState::get_or_create_indexed_split: the splits of the workbench
\* with an entry for the partition, created if it was vacant.
GetOrCreateIndexedSplit(partition, splits, split_id) ==
    IF partition \in DOMAIN splits THEN splits
    ELSE [q \in DOMAIN splits \cup {partition} |->
            IF q = partition THEN CreateIndexedSplit(split_id) ELSE splits[q]]

\* The loop of IndexerState::process_batch over the documents of a batch.
RECURSIVE ProcessDocs(_, _)
ProcessDocs(st, docs) ==
    IF docs = << >> THEN st
    ELSE IF Head(docs) = ParsingError
    THEN ProcessDocs([st EXCEPT !.counters.num_parse_errors = @ + 1],
                     Tail(docs))
    ELSE IF Head(docs) = MissingField
    THEN ProcessDocs([st EXCEPT !.counters.num_missing_fields = @ + 1],
                     Tail(docs))
    ELSE LET partition == Head(docs)
             wb == st.workbench[1]
             created == partition \notin DOMAIN wb.indexed_splits
             indexed_splits == GetOrCreateIndexedSplit(partition,
                                 wb.indexed_splits, st.next_id.split)
             splits == [indexed_splits EXCEPT
                          ![partition] =
                             [@ EXCEPT !.num_docs = @ + 1,
                                       !.index_writer = Append(@, Head(docs))]]
         IN  ProcessDocs(
               [st EXCEPT
                  !.workbench = Some([wb EXCEPT !.indexed_splits = splits]),
                  !.next_id.split = IF created THEN @ + 1 ELSE @,
                  !.counters.num_docs_in_workbench = @ + 1,
                  !.counters.num_valid_docs = @ + 1],
               Tail(docs))

\* A mutation of IndexerStateProcessBatch: the error of extend is ignored
\* and the documents are indexed all the same.
IndexerStateProcessBatchAnyDelta(st, batch) ==
    LET st1 == GetOrCreateWorkbench(st)
        wb == st1.workbench[1]
        ext == Extend(wb.checkpoint_delta.source_delta, batch.checkpoint_delta)
    IN  ProcessDocs(
          [st1 EXCEPT
             !.workbench =
                Some([wb EXCEPT !.checkpoint_delta.source_delta = ext.delta])],
          batch.docs)

\* IndexerState::process_batch: the delta of the batch extends the delta of
\* the workbench, or the call fails before any document is looked at.
IndexerStateProcessBatch(st, batch) ==
    LET st1 == GetOrCreateWorkbench(st)
        wb == st1.workbench[1]
        ext == Extend(wb.checkpoint_delta.source_delta, batch.checkpoint_delta)
        st2 == [st1 EXCEPT
                  !.workbench =
                     Some([wb EXCEPT !.checkpoint_delta.source_delta = ext.delta])]
    IN  IF ext.ok THEN ProcessDocs(st2, batch.docs)
        ELSE [st2 EXCEPT !.status = "Failure"]

\* The values of a map, in the order of their keys.
RECURSIVE ValuesOf(_, _)
ValuesOf(map, keys) ==
    IF keys = << >> THEN << >>
    ELSE << map[Head(keys)] >> \o ValuesOf(map, Tail(keys))

IndexedSplitBatch(splits, checkpoint_delta, date_of_birth) ==
    [splits |-> splits, checkpoint_delta |-> Some(checkpoint_delta),
     date_of_birth |-> date_of_birth]

\* What the indexer's call of publish_splits adds to the log.
LogEntry(by, batch, split_ids, delta_opt, ok) ==
    [by |-> by, batch |-> batch, split_ids |-> split_ids, delta |-> delta_opt,
     ok |-> ok]

\* Indexer::send_to_packager, once the workbench is taken: without a split
\* its delta is published at once, else the splits go to the packager.
CommitWorkbench(st, wb) ==
    LET splits == ValuesOf(wb.indexed_splits,
                           SortedPartitions(DOMAIN wb.indexed_splits))
        taken == [st EXCEPT !.workbench = None]
    IN  IF splits = << >>
        THEN LET request ==
                    [index_id |-> IndexId, split_ids |-> << >>,
                     replaced_split_ids |-> << >>,
                     index_checkpoint_delta_serialized_json |->
                        Some(SerializeDelta(wb.checkpoint_delta))]
                 res == MetastoreServicePublishSplits(st.ms_splits, st.ms_ck,
                                                      request)
                 logged == [taken EXCEPT
                              !.log = Append(@, LogEntry("indexer", 0,
                                        request.split_ids,
                                        Some(DeserializeDelta(
                                          request.index_checkpoint_delta_serialized_json[1]
                                        ).source_delta),
                                        res.reply.ok))]
             IN  IF res.reply.ok
                 THEN [logged EXCEPT !.ms_splits = res.splits,
                                     !.ms_ck = res.ck]
                 ELSE [logged EXCEPT !.status = "Failure"]
        ELSE [taken EXCEPT
                !.queue = Append(@, IndexedSplitBatch(splits,
                                                      wb.checkpoint_delta,
                                                      wb.date_of_birth)),
                !.counters.num_docs_in_workbench = 0,
                !.counters.num_splits_emitted = @ + Len(splits),
                !.counters.num_split_batches_emitted = @ + 1]

\* A mutation of SendToPackager: a workbench without a split is dropped
\* and its delta is not published.
SendToPackagerDropsEmpty(st) ==
    IF ~IsSome(st.workbench) THEN st
    ELSE IF DOMAIN st.workbench[1].indexed_splits = {}
    THEN [st EXCEPT !.workbench = None]
    ELSE CommitWorkbench(st, st.workbench[1])

\* A mutation of SendToPackager: without a workbench, a workbench is made
\* up and committed.
SendToPackagerWithoutWorkbench(st) ==
    IF ~IsSome(st.workbench)
    THEN CommitWorkbench(st, CreateWorkbench(st.next_id.workbench))
    ELSE CommitWorkbench(st, st.workbench[1])

\* Indexer::send_to_packager: takes the workbench, if there is one, and
\* commits it.
SendToPackager(st) ==
    IF ~IsSome(st.workbench) THEN st
    ELSE CommitWorkbench(st, st.workbench[1])

\* A mutation of FinalizeEmits: the workbench is emitted whatever the exit
\* status.
FinalizeEmitsAlways(exit_status) == TRUE

\* Indexer::finalize: only Quit and Success emit the workbench in flight.
FinalizeEmits(exit_status) == exit_status \in {"Quit", "Success"}

\* Indexer::finalize, run by the actor framework when the actor exits with
\* exit_status.
Finalize(st, exit_status) ==
    LET ran == [st EXCEPT !.finalized = @ + 1]
    IN  IF FinalizeEmits(exit_status)
        THEN [SendToPackager(ran) EXCEPT !.status = exit_status]
        ELSE [ran EXCEPT !.status = exit_status]

\* What a handler of the indexer leaves behind: an error ends the actor
\* with a Failure and finalize runs with that status.
IndexerAfter(st) ==
    IF st.status = "Failure" THEN Finalize(st, "Failure") ELSE st

\* A mutation of HandleCommitTimeout: the workbench is committed whatever
\* the id of the CommitTimeout.
HandleCommitTimeoutOfAny(st, workbench_id) == SendToPackager(st)

\* Handler<CommitTimeout>::handle: the timeout of another workbench than
\* the current one is ignored.
HandleCommitTimeout(st, workbench_id) ==
    IF /\ IsSome(st.workbench)
       /\ st.workbench[1].workbench_id # workbench_id
    THEN st
    ELSE SendToPackager(st)

\* A mutation of IndexerProcessBatch: the workbench is committed once it
\* holds more documents than split_num_docs_target.
IndexerProcessBatchAboveTarget(st, batch) ==
    LET st1 == IndexerStateProcessBatch(st, batch)
    IN  IF st1.status = "Failure" THEN st1
        ELSE IF st1.counters.num_docs_in_workbench > SplitNumDocsTarget
        THEN SendToPackager(st1)
        ELSE st1

\* Indexer::process_batch: commits when the workbench has reached
\* split_num_docs_target documents.
IndexerProcessBatch(st, batch) ==
    LET st1 == IndexerStateProcessBatch(st, batch)
    IN  IF st1.status = "Failure" THEN st1
        ELSE IF st1.counters.num_docs_in_workbench >= SplitNumDocsTarget
        THEN SendToPackager(st1)
        ELSE st1

\* The state an indexer handler works on.
IndexerSt ==
    [status |-> idx_status, workbench |-> idx_workbench,
     counters |-> idx_counters, timeouts |-> idx_timeouts,
     next_id |-> idx_next_id, scheduled |-> idx_scheduled,
     finalized |-> idx_finalized, queue |-> pk_queue, ms_splits |-> ms_splits,
     ms_ck |-> ms_checkpoint, log |-> publish_log]

\* The fields of the indexer after a handler, but for the CommitTimeouts
\* that are still to come.
IndexerSetFields(st) ==
    /\ idx_status' = st.status
    /\ idx_workbench' = st.workbench
    /\ idx_counters' = st.counters
    /\ idx_next_id' = st.next_id
    /\ idx_scheduled' = st.scheduled
    /\ idx_finalized' = st.finalized
    /\ pk_queue' = st.queue
    /\ ms_splits' = st.ms_splits
    /\ ms_checkpoint' = st.ms_ck
    /\ publish_log' = st.log
    /\ killed' = (killed \/ st.status = "Failure")

IndexerSet(st) ==
    /\ IndexerSetFields(st)
    \* the timeout of a workbench that is gone does nothing when it comes:
    \* it is dropped with its workbench
    /\ idx_timeouts' = IF IsSome(st.workbench)
                       THEN {st.workbench[1].workbench_id} ELSE {}

\* The checkpoint of the source when the pipeline starts.
InitialPositions == {Beginning, 0}

Init ==
    /\ ExtOff
    /\ ms_splits = [s \in PipeSplitIds |-> Absent]
    /\ \E pos \in InitialPositions :
          /\ ms_checkpoint = IF pos = Beginning THEN EmptyMap
                             ELSE [p \in {DefaultPartition} |-> pos]
          /\ src_pos = pos
    /\ init_checkpoint = ms_checkpoint
    /\ idx_obs = None
    /\ storage = [s \in PipeSplitIds |-> 0]
    /\ ever_staged = {}
    /\ ever_marked = {}
    /\ pub_status = "running"
    /\ pub_has_source = TRUE
    /\ pub_counters = DefaultPublisherCounters
    /\ pub_obs = None
    /\ GcOff
    /\ DeltaOff
    /\ UploadersOff
    /\ src_emitted = 0
    /\ idx_status = "running"
    /\ idx_workbench = None
    /\ idx_counters = DefaultIndexerCounters
    /\ idx_timeouts = {}
    /\ idx_next_id = [split |-> 1, workbench |-> 1]
    /\ idx_scheduled = << >>
    /\ idx_finalized = 0
    /\ pk_queue = << >>
    /\ up_pc = "idle"
    /\ up_batch = None
    /\ permits = MAX_CONCURRENT_SPLIT_UPLOAD
    /\ tasks = << >>
    /\ seq_queue = << >>
    /\ chan = << >>
    /\ killed = FALSE
    /\ publish_log = << >>
    /\ done_early = {}
    /\ stage_failed = {}
    /\ idx_received = 0

pipelineOthers == << gcVars, dlVars, idx_received, ulVars, extVars >>

\* Handler<RawDocBatch> for Indexer, on the next batch of the source.  A
\* source that has lost its place starts again from the beginning.
IndexerHandleRawDocBatch(docs, rewind) ==
    /\ idx_status = "running"
    /\ ~killed
    /\ src_emitted < MaxBatches
    /\ rewind => src_pos # Beginning
    /\ LET from == IF rewind THEN Beginning ELSE src_pos
           to == from + BatchStep(src_emitted)
           batch == RawDocBatch(docs, from, to)
           workbench_delta ==
              IF IsSome(idx_workbench)
              THEN idx_workbench[1].checkpoint_delta.source_delta
              ELSE EmptyMap
       IN  /\ src_pos' = to
           /\ idx_obs' = Some([batch |-> batch,
                               extends |-> Extend(workbench_delta,
                                             batch.checkpoint_delta).ok])
           /\ IndexerSet(IndexerAfter(IndexerProcessBatch(IndexerSt, batch)))
    /\ src_emitted' = src_emitted + 1
    /\ UNCHANGED << storage, ever_staged, ever_marked, pubVars, up_pc,
                    up_batch, permits, tasks, seq_queue, chan, done_early,
                    stage_failed, init_checkpoint >>
    /\ UNCHANGED pipelineOthers

\* Handler<CommitTimeout> for Indexer: the timeout of another workbench
\* than the current one is ignored.
IndexerHandleCommitTimeout(workbench_id) ==
    /\ idx_status = "running"
    /\ ~killed
    /\ workbench_id \in idx_timeouts
    /\ LET st == [IndexerSt EXCEPT !.timeouts = @ \ {workbench_id}]
       IN  IndexerSet(IndexerAfter(HandleCommitTimeout(st, workbench_id)))
    /\ UNCHANGED << src_pos, src_emitted, storage, ever_staged, ever_marked,
                    pubVars, up_pc, up_batch, permits, tasks, seq_queue, chan,
                    done_early, stage_failed, init_checkpoint, idx_obs >>
    /\ UNCHANGED pipelineOthers

\* The source has ended: the indexer exits with Success and finalize emits
\* the workbench in flight.
IndexerExitSuccess ==
    /\ idx_status = "running"
    /\ ~killed
    /\ IndexerSet(Finalize(IndexerSt, "Success"))
    /\ UNCHANGED << src_pos, src_emitted, storage, ever_staged, ever_marked,
                    pubVars, up_pc, up_batch, permits, tasks, seq_queue, chan,
                    done_early, stage_failed, init_checkpoint, idx_obs >>
    /\ UNCHANGED pipelineOthers

\* The payload of a split ends with its footer: footer_offsets.end is the
\* length of the object.
FooterEnd(indexed_split) == indexed_split.num_docs + 1

\* The packager: one PackagedSplit per IndexedSplit, the delta and the
\* date of birth unchanged.
Package(indexed_batch) ==
    [splits |-> [i \in DOMAIN indexed_batch.splits |->
                   [split_id |-> indexed_batch.splits[i].split_id,
                    index_id |-> IndexId,
                    replaced_split_ids |-> << >>,
                    footer_end |-> FooterEnd(indexed_batch.splits[i])]],
     checkpoint_delta_opt |-> indexed_batch.checkpoint_delta,
     date_of_birth |-> indexed_batch.date_of_birth]

\* A mutation of UploaderEnqueue: the receiver goes to the front of the
\* sequencer's queue.
UploaderEnqueueFirst(queue, c) == << c >> \o queue

\* Handler<PackagedSplitBatch>: the receiver is sent to the sequencer's
\* mailbox before anything is uploaded.
UploaderEnqueue(queue, c) == Append(queue, c)

\* The sequencer awaits the receivers in the order of their arrival.
SequencerNext(queue) == Head(queue)

\* PackagedSplitBatch::index_id: the index of the splits of the batch.
BatchIndexId(splits) == splits[1].index_id

\* The splits of a task with the metadata stage_and_upload_split has
\* returned for each.
PackagedSplitsAndMetadatas(splits, metadatas) ==
    [i \in DOMAIN splits |-> << splits[i], metadatas[i] >>]

\* The replaced split ids of all the splits, one after the other.
RECURSIVE FlatMapReplacedSplitIds(_)
FlatMapReplacedSplitIds(packaged_splits_and_metadatas) ==
    IF packaged_splits_and_metadatas = << >> THEN << >>
    ELSE Head(packaged_splits_and_metadatas)[1].replaced_split_ids
           \o FlatMapReplacedSplitIds(Tail(packaged_splits_and_metadatas))

\* Vec::from_iter of a HashSet: its elements, once each, in an order that
\* is not specified.
VecsFromHashSet(set) ==
    {vec \in [1 .. Cardinality(set) -> set] :
       \A i, j \in DOMAIN vec : vec[i] = vec[j] => i = j}

\* A mutation of MakePublishOperation: the replaced split ids are not
\* collected into a set.
MakePublishOperationFlat(index_id, packaged_splits_and_metadatas, checkpoint_delta_opt, date_of_birth) ==
    {[index_id |-> index_id,
      new_splits |-> [i \in DOMAIN packaged_splits_and_metadatas |->
                        packaged_splits_and_metadatas[i][2]],
      replaced_split_ids |->
         FlatMapReplacedSplitIds(packaged_splits_and_metadatas),
      checkpoint_delta_opt |-> checkpoint_delta_opt,
      date_of_birth |-> date_of_birth]}

\* make_publish_operation: the SplitUpdates it can return, one for each
\* order the hash set of the replaced split ids can be iterated in.
MakePublishOperation(index_id, packaged_splits_and_metadatas, checkpoint_delta_opt, date_of_birth) ==
    {[index_id |-> index_id,
      new_splits |-> [i \in DOMAIN packaged_splits_and_metadatas |->
                        packaged_splits_and_metadatas[i][2]],
      replaced_split_ids |-> replaced_split_ids,
      checkpoint_delta_opt |-> checkpoint_delta_opt,
      date_of_birth |-> date_of_birth] :
       replaced_split_ids \in VecsFromHashSet(SeqRange(
          FlatMapReplacedSplitIds(packaged_splits_and_metadatas)))}

\* The SplitUpdate of a batch whose splits replace nothing: the only one
\* make_publish_operation can return.
TheSplitUpdate(split_updates) == CHOOSE update \in split_updates : TRUE

\* A mutation of StageAndUploadSteps: the object is put before the split is
\* staged.
StageAndUploadStepsStoreFirst == << "store", "stage" >>

\* A mutation of StageAndUploadSteps: the split is staged and never put.
StageAndUploadStepsNoStore == << "stage" >>

\* stage_and_upload_split: stage_split, then store_split.
StageAndUploadSteps == << "stage", "store" >>

\* The task spawned for a batch.
UploadTask(batch) ==
    [splits |-> batch.splits,
     checkpoint_delta_opt |-> batch.checkpoint_delta_opt,
     date_of_birth |-> batch.date_of_birth,
     i |-> 1, step |-> 1, metadatas |-> << >>, state |-> "running"]

\* Handler<PackagedSplitBatch> for Uploader, up to the wait for a permit.
UploaderHandleEnqueue ==
    /\ ~killed
    /\ up_pc = "idle"
    /\ pk_queue # << >>
    /\ up_batch' = Some(Package(Head(pk_queue)))
    /\ pk_queue' = Tail(pk_queue)
    /\ chan' = Append(chan, [state |-> "pending", update |-> None])
    /\ seq_queue' = UploaderEnqueue(seq_queue, Len(chan) + 1)
    /\ up_pc' = "acquire"
    /\ UNCHANGED << msVars, pubVars, idxVars, permits, tasks, killed,
                    histVars >>
    /\ UNCHANGED pipelineOthers

\* Handler<PackagedSplitBatch> for Uploader, from the permit on: a dead
\* kill switch cancels the upload, else the task is spawned with the
\* permit.
UploaderHandleSpawn ==
    /\ up_pc = "acquire"
    /\ permits > 0
    /\ IF killed
       THEN /\ up_pc' = "Killed"
            /\ chan' = [chan EXCEPT ![Len(chan)].state = "dropped"]
            /\ UNCHANGED << permits, tasks >>
       ELSE /\ up_pc' = "idle"
            /\ tasks' = Append(tasks, UploadTask(up_batch[1]))
            /\ permits' = permits - 1
            /\ UNCHANGED chan
    /\ up_batch' = None
    /\ UNCHANGED << msVars, pubVars, idxVars, pk_queue, seq_queue, killed,
                    histVars >>
    /\ UNCHANGED pipelineOthers

\* The task after a step that succeeded: the next step of the split, the
\* next split, or the SplitUpdate sent and the permit given back.
TaskAfterStep(c) ==
    LET task == tasks[c]
        split == task.splits[task.i]
        metadatas == Append(task.metadatas,
                            SplitMetadata(split.split_id, split.footer_end))
    IN  IF task.step < Len(StageAndUploadSteps)
        THEN [tasks |-> [tasks EXCEPT ![c].step = @ + 1],
              chan |-> chan, permits |-> permits, done_early |-> done_early]
        ELSE IF task.i < Len(task.splits)
        THEN [tasks |-> [tasks EXCEPT ![c].step = 1, ![c].i = @ + 1,
                                      ![c].metadatas = metadatas],
              chan |-> chan, permits |-> permits, done_early |-> done_early]
        ELSE [tasks |-> [tasks EXCEPT ![c].state = "done",
                                      ![c].metadatas = metadatas],
              chan |-> [chan EXCEPT ![c] =
                          [state |-> "sent",
                           update |-> Some(TheSplitUpdate(
                                        MakePublishOperation(
                                          BatchIndexId(task.splits),
                                          PackagedSplitsAndMetadatas(
                                            task.splits, metadatas),
                                          task.checkpoint_delta_opt,
                                          task.date_of_birth)))]],
              permits |-> permits + 1,
              done_early |->
                 done_early \cup
                 {<< c, b >> : b \in {a \in 1 .. c - 1 :
                                        tasks[a].state = "running"}}]

TaskSet(after) ==
    /\ tasks' = after.tasks
    /\ chan' = after.chan
    /\ permits' = after.permits
    /\ done_early' = after.done_early

\* A mutation of TaskFailed: the task ends and the kill switch is not
\* fired.
TaskFailedWithoutKill(c) ==
    /\ tasks' = [tasks EXCEPT ![c].state = "failed"]
    /\ chan' = [chan EXCEPT ![c].state = "dropped"]
    /\ permits' = permits + 1
    /\ UNCHANGED << killed, done_early >>

\* The task after a step that failed: the kill switch is fired, the sender
\* and the permit are dropped.
TaskFailed(c) ==
    /\ tasks' = [tasks EXCEPT ![c].state = "failed"]
    /\ chan' = [chan EXCEPT ![c].state = "dropped"]
    /\ permits' = permits + 1
    /\ killed' = TRUE
    /\ UNCHANGED done_early

\* stage_and_upload_split, get_split_payload of the current split: the
\* payload cannot be built, and the split is not staged.
TaskGetSplitPayloadFails(c) ==
    /\ c \in DOMAIN tasks
    /\ tasks[c].state = "running"
    /\ tasks[c].step = 1
    /\ TaskFailed(c)
    /\ UNCHANGED << msVars, pubVars, idxVars, pk_queue, up_pc, up_batch,
                    seq_queue, publish_log, stage_failed, init_checkpoint,
                    idx_obs >>
    /\ UNCHANGED pipelineOthers

\* stage_and_upload_split, the stage_split call of the current split.
TaskStageSplit(c, ok) ==
    /\ c \in DOMAIN tasks
    /\ tasks[c].state = "running"
    /\ StageAndUploadSteps[tasks[c].step] = "stage"
    /\ LET split_id == tasks[c].splits[tasks[c].i].split_id
           res == StageSplitOp(ms_splits, split_id)
       IN  IF ok /\ res.reply.ok
           THEN /\ ms_splits' = res.splits
                /\ ever_staged' = ever_staged \cup {split_id}
                /\ TaskSet(TaskAfterStep(c))
                /\ UNCHANGED << killed, stage_failed >>
           ELSE /\ stage_failed' = stage_failed \cup {split_id}
                /\ TaskFailed(c)
                /\ UNCHANGED << ms_splits, ever_staged >>
    /\ UNCHANGED << ms_checkpoint, storage, ever_marked, pubVars, idxVars,
                    pk_queue, up_pc, up_batch, seq_queue, publish_log,
                    init_checkpoint, idx_obs >>
    /\ UNCHANGED pipelineOthers

\* stage_and_upload_split, the store_split call of the current split.
TaskStoreSplit(c, ok) ==
    /\ c \in DOMAIN tasks
    /\ tasks[c].state = "running"
    /\ StageAndUploadSteps[tasks[c].step] = "store"
    /\ LET split == tasks[c].splits[tasks[c].i]
       IN  IF ok
           THEN /\ storage' = [storage EXCEPT ![split.split_id] =
                                                 split.footer_end]
                /\ TaskSet(TaskAfterStep(c))
                /\ UNCHANGED killed
           ELSE /\ TaskFailed(c)
                /\ UNCHANGED storage
    /\ UNCHANGED << ms_splits, ms_checkpoint, ever_staged, ever_marked,
                    pubVars, idxVars, pk_queue, up_pc, up_batch, seq_queue,
                    publish_log, stage_failed, init_checkpoint, idx_obs >>
    /\ UNCHANGED pipelineOthers

\* Handler<SplitUpdate> for Publisher, on the SplitUpdate the sequencer
\* forwards: the one of the first receiver of its queue, once it is sent.
PublisherHandle ==
    /\ ~killed
    /\ pub_status = "running"
    /\ seq_queue # << >>
    /\ LET c == SequencerNext(seq_queue)
       IN  /\ chan[c].state = "sent"
           /\ LET update == chan[c].update[1]
                  out == PublisherOutcome(update, ms_splits, ms_checkpoint,
                                          pub_has_source, pub_counters)
              IN  /\ ms_splits' = out.splits
                  /\ ms_checkpoint' = out.ck
                  /\ pub_status' = out.status
                  /\ pub_counters' = out.counters
                  /\ killed' = (out.status = "Failure")
                  /\ publish_log' =
                        Append(publish_log,
                          LogEntry("publisher", c, out.request.split_ids,
                            IF IsSome(update.checkpoint_delta_opt)
                            THEN Some(update.checkpoint_delta_opt[1].source_delta)
                            ELSE None,
                            out.reply.ok))
           /\ seq_queue' = SelectSeq(seq_queue, LAMBDA x : x # c)
    /\ UNCHANGED << storage, ever_staged, ever_marked, pub_has_source,
                    pub_obs, idxVars, pk_queue, up_pc, up_batch, permits,
                    tasks, chan, done_early, stage_failed, init_checkpoint,
                    idx_obs >>
    /\ UNCHANGED pipelineOthers

Next ==
    \/ \E docs \in BatchDocs, rewind \in BOOLEAN :
          IndexerHandleRawDocBatch(docs, rewind)
    \/ \E id \in 1 .. MaxBatches : IndexerHandleCommitTimeout(id)
    \/ IndexerExitSuccess
    \/ UploaderHandleEnqueue
    \/ UploaderHandleSpawn
    \/ \E c \in 1 .. MaxBatches : TaskGetSplitPayloadFails(c)
    \/ \E c \in 1 .. MaxBatches, ok \in BOOLEAN : TaskStageSplit(c, ok)
    \/ \E c \in 1 .. MaxBatches, ok \in BOOLEAN : TaskStoreSplit(c, ok)
    \/ PublisherHandle

Spec == Init /\ [][Next]_vars

(***************************************************************************)
(* Claims about the pipeline.                                              *)
(***************************************************************************)
\* The publish_splits calls of the publisher, in the order the metastore
\* has seen them.
PublisherCalls == SelectSeq(publish_log, LAMBDA e : e.by = "publisher")

\* The calls that succeeded.
PublishedLog == SelectSeq(publish_log, LAMBDA e : e.ok)

\* The position of partition p after the first n published deltas.
RECURSIVE PositionAfter(_, _)
PositionAfter(p, n) ==
    IF n = 0 THEN PositionOf(init_checkpoint, p)
    ELSE IF IsSome(PublishedLog[n].delta) /\ p \in DOMAIN PublishedLog[n].delta[1]
    THEN PublishedLog[n].delta[1][p].to
    ELSE PositionAfter(p, n - 1)

\* C1: the metastore sees the publisher's publish_splits calls in the order
\* the batches were handed to the uploader, whatever the order in which
\* their uploads end; and when the call of batch Bn has succeeded, the
\* checkpoint is at the `to` position of Bn's delta.
C1_PublishInSubmissionOrder ==
    /\ \A i \in DOMAIN PublisherCalls : PublisherCalls[i].batch = i
    /\ publish_log # << >> =>
          LET last == publish_log[Len(publish_log)]
          IN  (last.by = "publisher" /\ last.ok) =>
                 \A p \in DOMAIN last.delta[1] :
                    PositionOf(ms_checkpoint, p) = last.delta[1][p].to

\* Scenario S2: the deltas 0..3, 3..5 and 5..8, the uploads ended in the
\* order B2, B3, B1, the publishes made in the order B1, B2, B3 and the
\* checkpoint at 8.
C1_Witness ==
    /\ Len(publish_log) = 3
    /\ \A i \in 1 .. 3 :
          /\ publish_log[i].by = "publisher"
          /\ publish_log[i].batch = i
          /\ publish_log[i].ok
    /\ publish_log[1].delta[1][DefaultPartition] = [from |-> 0, to |-> 3]
    /\ publish_log[2].delta[1][DefaultPartition] = [from |-> 3, to |-> 5]
    /\ publish_log[3].delta[1][DefaultPartition] = [from |-> 5, to |-> 8]
    /\ done_early = {<< 2, 1 >>, << 3, 1 >>}
    /\ PositionOf(ms_checkpoint, DefaultPartition) = 8

\* C2: for every partition, each published delta starts where the previous
\* published delta of the partition ended (at the initial checkpoint for
\* the first one) and ends further, and the checkpoint of the metastore is
\* at the `to` of the latest one.
C2_ExactlyOncePublication ==
    /\ \A n \in DOMAIN PublishedLog :
          IsSome(PublishedLog[n].delta) =>
             \A p \in DOMAIN PublishedLog[n].delta[1] :
                /\ PublishedLog[n].delta[1][p].from = PositionAfter(p, n - 1)
                /\ PublishedLog[n].delta[1][p].from < PublishedLog[n].delta[1][p].to
    /\ \A p \in {DefaultPartition} :
          PositionOf(ms_checkpoint, p) = PositionAfter(p, Len(PublishedLog))

\* The indexer has published the delta of a workbench without splits and
\* the publisher the delta after it; a later delta that starts again from
\* the beginning has been refused.
C2_Witness ==
    /\ Len(publish_log) = 3
    /\ publish_log[1].by = "indexer" /\ publish_log[1].ok
    /\ publish_log[2].by = "publisher" /\ publish_log[2].ok
    /\ ~publish_log[3].ok
    /\ publish_log[3].delta[1][DefaultPartition].from = Beginning
    /\ PositionOf(ms_checkpoint, DefaultPartition)
          = publish_log[2].delta[1][DefaultPartition].to
    /\ PositionOf(ms_checkpoint, DefaultPartition) > Beginning

\* C3: an object is in storage only for a split whose stage_split has been
\* recorded, and never for a split whose stage_split failed.
C3_StagedBeforeUploaded ==
    \A s \in PipeSplitIds :
        storage[s] > 0 => (s \in ever_staged /\ s \notin stage_failed)

\* One split has been staged and then stored; the stage_split of another
\* failed and it has no object.
C3_Witness ==
    /\ \E s \in PipeSplitIds : s \in ever_staged /\ storage[s] > 0
    /\ \E s \in stage_failed : storage[s] = 0 /\ ms_splits[s] = Absent

\* The upload task that carries split s, and s in it.
TaskOf(s) ==
    CHOOSE c \in DOMAIN tasks :
        \E i \in DOMAIN tasks[c].splits : tasks[c].splits[i].split_id = s

PackagedSplitOf(s) ==
    LET task == tasks[TaskOf(s)]
    IN  task.splits[CHOOSE i \in DOMAIN task.splits :
                        task.splits[i].split_id = s]

\* C4: a Published split has its object in storage, at least as long as
\* footer_offsets.end, and the upload task of its batch has ended well.
C4_PublishedHasObject ==
    \A s \in PipeSplitIds :
        ms_splits[s] = Published =>
            /\ storage[s] > 0
            /\ storage[s] >= PackagedSplitOf(s).footer_end
            /\ tasks[TaskOf(s)].state = "done"

\* A batch of two splits is published with both objects stored, while the
\* splits of a failed upload stay unpublished.
C4_Witness ==
    /\ \E c \in DOMAIN tasks :
          /\ Len(tasks[c].splits) = 2
          /\ \A i \in 1 .. 2 :
                /\ ms_splits[tasks[c].splits[i].split_id] = Published
                /\ storage[tasks[c].splits[i].split_id]
                      = tasks[c].splits[i].footer_end
    /\ \E c \in DOMAIN tasks :
          /\ tasks[c].state = "failed"
          /\ ms_splits[tasks[c].splits[1].split_id] = Staged
          /\ storage[tasks[c].splits[1].split_id] = 0

\* C10: the step that handles a batch whose delta does not extend the
\* workbench's ends the indexer with a Failure, counts and indexes no
\* document, sends nothing to the packager and publishes nothing; and a
\* failed indexer does nothing more.
C10_ExtendFailureIsFatal ==
    [][/\ (src_emitted' # src_emitted /\ ~idx_obs'[1].extends) =>
            /\ idx_status' = "Failure"
            /\ idx_counters' = idx_counters
            /\ IsSome(idx_workbench')
            /\ idx_workbench'[1].indexed_splits =
                  IF IsSome(idx_workbench)
                  THEN idx_workbench[1].indexed_splits ELSE EmptyMap
            /\ pk_queue' = pk_queue
            /\ publish_log' = publish_log
            /\ ms_splits' = ms_splits
            /\ ms_checkpoint' = ms_checkpoint
       /\ idx_status = "Failure" =>
            /\ UNCHANGED << idx_status, idx_workbench, idx_counters >>
            /\ Len(pk_queue') <= Len(pk_queue)
            /\ publish_log' # publish_log =>
                  publish_log'[Len(publish_log')].by = "publisher"
      ]_vars

\* The indexer has failed on a batch that starts again from the beginning
\* while its workbench held a split: the split has stayed in the workbench
\* and nothing has been published.
C10_Witness ==
    /\ idx_status = "Failure"
    /\ IsSome(idx_obs) /\ ~idx_obs[1].extends
    /\ idx_obs[1].batch.docs # << ParsingError >>
    /\ IsSome(idx_workbench)
    /\ DOMAIN idx_workbench[1].indexed_splits # {}
    /\ idx_counters.num_valid_docs = 1
    /\ pk_queue = << >>
    /\ publish_log = << >>

\* C18: a task in which a call has failed for a split (the building of the
\* payload, stage_split or the put of the object) has fired the kill
\* switch and has dropped its sender: no SplitUpdate is sent for its
\* batch, and the publisher never gets one.
C18_UploadFailureKillsAndSendsNothing ==
    [][\A c \in DOMAIN tasks' :
          tasks'[c].state = "failed"
             => /\ killed'
                /\ chan'[c].state = "dropped"
                /\ chan'[c].update = None
                /\ \A i \in DOMAIN publish_log' :
                      ~(/\ publish_log'[i].by = "publisher"
                        /\ publish_log'[i].batch = c)]_vars

\* The task of a batch of two splits has staged and stored the first one
\* and the put of the second one has failed, and the task of another batch
\* has failed to build a payload: the kill switch is fired and neither
\* task has sent a SplitUpdate.
C18_Witness ==
    /\ killed
    /\ \E c \in DOMAIN tasks :
          /\ tasks[c].state = "failed"
          /\ Len(tasks[c].splits) = 2
          /\ tasks[c].i = 2
          /\ StageAndUploadSteps[tasks[c].step] = "store"
          /\ storage[tasks[c].splits[1].split_id] > 0
          /\ storage[tasks[c].splits[2].split_id] = 0
          /\ chan[c].state = "dropped"
    /\ \E c \in DOMAIN tasks :
          /\ tasks[c].state = "failed"
          /\ tasks[c].i = 1
          /\ StageAndUploadSteps[tasks[c].step] = "stage"
          /\ tasks[c].splits[1].split_id \notin stage_failed
          /\ ms_splits[tasks[c].splits[1].split_id] = Absent
          /\ chan[c].state = "dropped"


(***************************************************************************)
(* SpecIndexer: the indexer alone, as in the tests of indexer.rs.  The     *)
(* Kafka source sends batches of up to two documents (valid ones of two    *)
(* partition keys, ones that do not parse, ones that lack a required       *)
(* field) and batches of messages without a payload, which carry a delta   *)
(* and no document; every scheduled CommitTimeout comes, the stale ones    *)
(* too; the actor exits with any exit status.  The batches sent to the     *)
(* packager stay in pk_queue, and the rest of the pipeline brings them to  *)
(* publication one by one.                                                 *)
(***************************************************************************)
\* previous_position_for_offset
PreviousPositionForOffset(offset) ==
    IF offset = 0 THEN Beginning ELSE offset - 1

\* KafkaSource::process_kafka_message, for a message of the one partition
\* assigned: the payload, if there is one, joins the documents of the
\* batch, and the delta of the batch moves to the offset of the message
\* either way.
ProcessKafkaMessage(builder, current_position, doc_opt, offset) ==
    LET previous_position ==
           IF IsSome(current_position) THEN current_position[1]
           ELSE PreviousPositionForOffset(offset)
    IN  [docs |-> IF IsSome(doc_opt) THEN Append(builder.docs, doc_opt[1])
                  ELSE builder.docs,
         checkpoint_delta |->
            RecordPartitionDelta(builder.checkpoint_delta, DefaultPartition,
                                 previous_position, offset)]

\* The loop of KafkaSource::emit_batches over the messages that come before
\* the deadline, the first one at `offset`.
RECURSIVE KafkaBatchBuilder(_, _, _, _)
KafkaBatchBuilder(builder, current_position, offset, payloads) ==
    IF payloads = << >> THEN builder
    ELSE KafkaBatchBuilder(
            ProcessKafkaMessage(builder, current_position, Head(payloads),
                                offset),
            Some(offset), offset + 1, Tail(payloads))

\* BatchBuilder::default
DefaultBatchBuilder == [docs |-> << >>, checkpoint_delta |-> EmptyMap]

\* The payloads of the messages of one batch, as parse_message_payload
\* returns them: None for a message without payload, else the document.
IxBatchPayloads ==
    { << None >>, << Some(0) >>, << Some(0), Some(1) >>,
      << Some(ParsingError), Some(0) >>, << Some(MissingField), Some(0) >>,
      << Some(ParsingError), Some(MissingField) >> }

\* The ids IndexedSplit::new_in_dir can hand out: one split per partition
\* key and batch at most.
IxSplitIds == 1 .. (2 * MaxBatches)

ExitStatuses ==
    {"Success", "Quit", "DownstreamClosed", "Killed", "Failure", "Panicked"}

InitIndexer ==
    /\ ExtOff
    /\ ms_splits = [s \in IxSplitIds |-> Absent]
    /\ ms_checkpoint = EmptyMap
    /\ storage = [s \in IxSplitIds |-> 0]
    /\ ever_staged = {}
    /\ ever_marked = {}
    /\ pub_status = "running"
    /\ pub_has_source = FALSE
    /\ pub_counters = DefaultPublisherCounters
    /\ pub_obs = None
    /\ GcOff
    /\ DeltaOff
    /\ UploadersOff
    /\ src_pos = Beginning
    /\ src_emitted = 0
    /\ idx_status = "running"
    /\ idx_workbench = None
    /\ idx_counters = DefaultIndexerCounters
    /\ idx_timeouts = {}
    /\ idx_next_id = [split |-> 1, workbench |-> 1]
    /\ idx_scheduled = << >>
    /\ idx_finalized = 0
    /\ pk_queue = << >>
    /\ up_pc = "off"
    /\ up_batch = None
    /\ permits = 0
    /\ tasks = << >>
    /\ seq_queue = << >>
    /\ chan = << >>
    /\ killed = FALSE
    /\ init_checkpoint = EmptyMap
    /\ idx_obs = None
    /\ publish_log = << >>
    /\ done_early = {}
    /\ stage_failed = {}
    /\ idx_received = 0

indexerOthers ==
    << gcVars, dlVars, ulVars, extVars, storage, ever_staged, ever_marked, pub_status,
       pub_has_source, pub_obs, up_pc, up_batch, permits, tasks, seq_queue,
       chan, init_checkpoint, done_early, stage_failed >>

\* KafkaSource::emit_batches sends the batch it has built, if its delta is
\* not empty, and Handler<RawDocBatch> for Indexer handles it.
IxHandleRawDocBatch(payloads) ==
    /\ idx_status = "running"
    /\ src_emitted < MaxBatches
    /\ LET batch == KafkaBatchBuilder(
                       DefaultBatchBuilder,
                       IF src_pos = Beginning THEN None ELSE Some(src_pos),
                       src_pos + 1, payloads)
           docs == batch.docs
           st == IndexerAfter(IndexerProcessBatch(IndexerSt, batch))
       IN  /\ batch.checkpoint_delta # EmptyMap
           /\ src_pos' = batch.checkpoint_delta[DefaultPartition].to
           /\ idx_obs' = Some([kind |-> "RawDocBatch", batch |-> batch])
           /\ IndexerSetFields(st)
           /\ idx_timeouts' = st.timeouts
           /\ idx_received' = IF IsSome(st.workbench)
                              THEN idx_received + Len(docs) ELSE 0
    /\ src_emitted' = src_emitted + 1
    /\ UNCHANGED pub_counters
    /\ UNCHANGED indexerOthers

\* Handler<CommitTimeout> for Indexer, on any CommitTimeout that has been
\* scheduled and has not come yet.
IxHandleCommitTimeout(workbench_id) ==
    /\ idx_status = "running"
    /\ workbench_id \in idx_timeouts
    /\ LET st == IndexerAfter(HandleCommitTimeout(IndexerSt, workbench_id))
       IN  /\ idx_obs' = Some([kind |-> "CommitTimeout",
                               workbench_id |-> workbench_id])
           /\ IndexerSetFields(st)
           /\ idx_timeouts' = st.timeouts \ {workbench_id}
           /\ idx_received' = IF IsSome(st.workbench) THEN idx_received
                              ELSE 0
    /\ UNCHANGED << src_pos, src_emitted, pub_counters >>
    /\ UNCHANGED indexerOthers

\* The actor exits: the source has ended (Success), the pipeline is told to
\* quit or is killed, the packager is gone, a handler has panicked or has
\* failed before it changed anything (the index writer, the scratch
\* directory).  The framework runs finalize with the exit status.
IxExit(exit_status) ==
    /\ idx_status = "running"
    /\ LET st == Finalize(IndexerSt, exit_status)
       IN  /\ idx_obs' = Some([kind |-> "Exit", exit_status |-> exit_status])
           /\ IndexerSetFields(st)
           /\ idx_timeouts' = st.timeouts
           /\ idx_received' = IF IsSome(st.workbench) THEN idx_received
                              ELSE 0
    /\ UNCHANGED << src_pos, src_emitted, pub_counters >>
    /\ UNCHANGED indexerOthers

\* The packager, the uploader and the publisher bring the oldest batch that
\* is not published yet to publication: its splits are staged and stored,
\* and published with the delta of the batch.
IxPublishDownstream ==
    /\ ~killed
    /\ pub_counters.num_published_splits < Len(pk_queue)
    /\ LET batch == pk_queue[pub_counters.num_published_splits + 1]
           packaged == Package(batch)
           metadatas == [i \in DOMAIN packaged.splits |->
                           SplitMetadata(packaged.splits[i].split_id,
                                         packaged.splits[i].footer_end)]
           ids == SeqRange(SplitIdsOf(metadatas))
           staged == [s \in DOMAIN ms_splits |->
                        IF s \in ids THEN StageSplitOp(ms_splits, s).splits[s]
                        ELSE ms_splits[s]]
           out == PublisherOutcome(
                     TheSplitUpdate(MakePublishOperation(
                       BatchIndexId(packaged.splits),
                       PackagedSplitsAndMetadatas(packaged.splits, metadatas),
                       packaged.checkpoint_delta_opt,
                       packaged.date_of_birth)),
                     staged, ms_checkpoint, pub_has_source, pub_counters)
       IN  /\ out.reply.ok
           /\ ms_splits' = out.splits
           /\ ms_checkpoint' = out.ck
           /\ pub_counters' = out.counters
           /\ publish_log' = Append(publish_log,
                                LogEntry("publisher",
                                         pub_counters.num_published_splits + 1,
                                         out.request.split_ids,
                                         Some(packaged.checkpoint_delta_opt[1]
                                                .source_delta),
                                         TRUE))
    /\ idx_obs' = None
    /\ UNCHANGED << idxVars, pk_queue, killed, idx_received >>
    /\ UNCHANGED indexerOthers

NextIndexer ==
    \/ \E payloads \in IxBatchPayloads : IxHandleRawDocBatch(payloads)
    \/ \E w \in 1 .. MaxBatches : IxHandleCommitTimeout(w)
    \/ \E exit_status \in ExitStatuses : IxExit(exit_status)
    \/ IxPublishDownstream

SpecIndexer == InitIndexer /\ [][NextIndexer]_vars

\* The steps of IxHandleCommitTimeout(workbench_id), told by what they do
\* to the mailbox: the scheduled CommitTimeout of the workbench id is
\* taken out of it and handled.  Such a step is possible exactly when
\* IxHandleCommitTimeout(workbench_id) is.
IxCommitTimeoutDelivered(workbench_id) ==
    /\ idx_status = "running"
    /\ workbench_id \in idx_timeouts
    /\ idx_timeouts' = idx_timeouts \ {workbench_id}
    /\ idx_obs' = Some([kind |-> "CommitTimeout",
                        workbench_id |-> workbench_id])

\* Weak fairness of the handling of the CommitTimeout of a workbench id.
WeakFairCommitTimeout(workbench_id) ==
    WF_<< idx_timeouts, idx_obs >>(IxCommitTimeoutDelivered(workbench_id))

\* The indexer with a mailbox that is fair to the CommitTimeouts: a
\* CommitTimeout that has been scheduled and not handled yet is handled
\* in the end if the indexer keeps running, whatever else arrives.
SpecIndexerFair ==
    /\ InitIndexer
    /\ [][NextIndexer]_vars
    /\ \A w \in 1 .. MaxBatches : WeakFairCommitTimeout(w)


(***************************************************************************)
(* Claims checked under SpecIndexer.                                       *)
(***************************************************************************)
\* The step is the handling of a CommitTimeout.
IxIsCommitTimeout ==
    IsSome(idx_obs') /\ idx_obs'[1].kind = "CommitTimeout"

\* The step commits the workbench in flight: its own CommitTimeout has
\* come, or the actor exits with Success or Quit.
IxCommitsWorkbench ==
    /\ IsSome(idx_workbench)
    /\ IsSome(idx_obs')
    /\ \/ /\ idx_obs'[1].kind = "CommitTimeout"
          /\ idx_obs'[1].workbench_id = idx_workbench[1].workbench_id
       \/ /\ idx_obs'[1].kind = "Exit"
          /\ idx_obs'[1].exit_status \in {"Success", "Quit"}

\* The step sends nothing to the packager.
IxNothingEmitted ==
    /\ pk_queue' = pk_queue
    /\ idx_counters'.num_splits_emitted = idx_counters.num_splits_emitted
    /\ idx_counters'.num_split_batches_emitted
          = idx_counters.num_split_batches_emitted

\* The step makes no publish_splits call.
IxNothingPublished ==
    /\ publish_log' = publish_log
    /\ ms_splits' = ms_splits
    /\ ms_checkpoint' = ms_checkpoint

\* C11: when a workbench that was sent documents, all of them invalid, is
\* committed, nothing is sent to the packager and the indexer makes one
\* publish_splits call, with no split id and the delta of the workbench.
C11_AllInvalidPublishesDelta ==
    [][( /\ IxCommitsWorkbench
         /\ idx_received > 0
         /\ idx_counters.num_docs_in_workbench = 0 )
       => /\ IxNothingEmitted
          /\ idx_workbench' = None
          /\ Len(publish_log') = Len(publish_log) + 1
          /\ SubSeq(publish_log', 1, Len(publish_log)) = publish_log
          /\ LET call == publish_log'[Len(publish_log')]
             IN  /\ call.by = "indexer"
                 /\ call.split_ids = << >>
                 /\ call.delta
                      = Some(idx_workbench[1].checkpoint_delta.source_delta)]_vars

\* A batch of a document that does not parse and one that lacks a field,
\* then the CommitTimeout: no split, one publish that moves the checkpoint
\* to offset 1.
C11_Witness ==
    /\ idx_obs = Some([kind |-> "CommitTimeout", workbench_id |-> 1])
    /\ idx_counters.num_parse_errors = 1
    /\ idx_counters.num_missing_fields = 1
    /\ idx_counters.num_valid_docs = 0
    /\ pk_queue = << >>
    /\ idx_workbench = None
    /\ Len(publish_log) = 1
    /\ publish_log[1].by = "indexer"
    /\ publish_log[1].split_ids = << >>
    /\ publish_log[1].delta
          = Some([p \in {DefaultPartition} |-> [from |-> Beginning, to |-> 1]])
    /\ publish_log[1].ok
    /\ PositionOf(ms_checkpoint, DefaultPartition) = 1


\* The CommitTimeout of the step is the one of the current workbench.
IxTimeoutOfCurrent ==
    /\ IxIsCommitTimeout
    /\ IsSome(idx_workbench)
    /\ idx_obs'[1].workbench_id = idx_workbench[1].workbench_id

\* C12 as stated: a CommitTimeout that comes when there is no workbench, or
\* when its workbench was sent no document, sends nothing to the packager
\* and makes no publish_splits call.
C12_ZeroDocTimeoutDoesNothing ==
    [][( \/ IxIsCommitTimeout /\ ~IsSome(idx_workbench)
         \/ IxTimeoutOfCurrent /\ idx_received = 0 )
       => IxNothingEmitted /\ IxNothingPublished]_vars

\* C12, amended: a CommitTimeout that comes when there is no workbench
\* sends nothing to the packager and makes no publish_splits call; one that
\* comes for the current workbench, which was sent batches without a
\* document, sends nothing to the packager and makes one publish_splits
\* call with no split id and the delta of the workbench.
C12_ZeroDocTimeoutPublishesDelta ==
    [][/\ (IxIsCommitTimeout /\ ~IsSome(idx_workbench))
            => IxNothingEmitted /\ IxNothingPublished /\ idx_workbench' = None
       /\ (IxTimeoutOfCurrent /\ idx_received = 0)
            => /\ IxNothingEmitted
               /\ idx_workbench' = None
               /\ Len(publish_log') = Len(publish_log) + 1
               /\ SubSeq(publish_log', 1, Len(publish_log)) = publish_log
               /\ LET call == publish_log'[Len(publish_log')]
                  IN  /\ call.by = "indexer"
                      /\ call.split_ids = << >>
                      /\ call.delta # Some(EmptyMap)
                      /\ call.delta
                           = Some(idx_workbench[1].checkpoint_delta.source_delta)]_vars

\* A batch of one message without payload, whose CommitTimeout publishes
\* the delta up to offset 0; then a batch of two valid documents, committed
\* at once; then the CommitTimeout of that second workbench, which finds no
\* workbench and does nothing.
C12_Witness ==
    /\ idx_obs = Some([kind |-> "CommitTimeout", workbench_id |-> 2])
    /\ idx_workbench = None
    /\ idx_timeouts = {}
    /\ idx_counters.num_parse_errors = 0
    /\ idx_counters.num_missing_fields = 0
    /\ idx_counters.num_valid_docs = 2
    /\ Len(publish_log) = 1
    /\ publish_log[1].by = "indexer"
    /\ publish_log[1].split_ids = << >>
    /\ publish_log[1].delta
          = Some([p \in {DefaultPartition} |-> [from |-> Beginning, to |-> 0]])
    /\ Len(pk_queue) = 1
    /\ pk_queue[1].checkpoint_delta[1].source_delta
          = [p \in {DefaultPartition} |-> [from |-> 0, to |-> 2]]


\* The step is the handling of a RawDocBatch that finds no workbench and
\* creates one.
IxCreatesWorkbench ==
    /\ IsSome(idx_obs')
    /\ idx_obs'[1].kind = "RawDocBatch"
    /\ ~IsSome(idx_workbench)

\* C13: a CommitTimeout with the id of a workbench is scheduled when the
\* workbench is created, once, and at no other time; a CommitTimeout whose
\* id is not the id of the current workbench commits nothing, sends nothing
\* to the packager, publishes nothing and leaves the workbench, the
\* counters and the status of the indexer as they are.
C13_TimeoutScheduledAtCreationStaleIgnored ==
    [][/\ IF IxCreatesWorkbench
          THEN /\ idx_scheduled' = Append(idx_scheduled, idx_next_id.workbench)
               /\ idx_next_id.workbench \notin SeqRange(idx_scheduled)
               /\ idx_next_id.workbench \in idx_timeouts'
               /\ IsSome(idx_workbench')
                    => idx_workbench'[1].workbench_id = idx_next_id.workbench
          ELSE /\ idx_scheduled' = idx_scheduled
               /\ idx_timeouts' \subseteq idx_timeouts
               /\ IsSome(idx_workbench')
                    => /\ IsSome(idx_workbench)
                       /\ idx_workbench'[1].workbench_id
                            = idx_workbench[1].workbench_id
       /\ (IxIsCommitTimeout /\ ~IxTimeoutOfCurrent)
            => /\ IxNothingEmitted
               /\ IxNothingPublished
               /\ idx_workbench' = idx_workbench
               /\ idx_counters' = idx_counters
               /\ idx_status' = idx_status]_vars

\* The first workbench was committed on its second document; the second
\* workbench holds one document when the CommitTimeout of the first one
\* comes and is ignored.
C13_Witness ==
    /\ idx_obs = Some([kind |-> "CommitTimeout", workbench_id |-> 1])
    /\ idx_scheduled = << 1, 2 >>
    /\ idx_timeouts = {2}
    /\ IsSome(idx_workbench)
    /\ idx_workbench[1].workbench_id = 2
    /\ idx_counters.num_docs_in_workbench = 1
    /\ idx_counters.num_split_batches_emitted = 1
    /\ Len(pk_queue) = 1
    /\ idx_status = "running"


\* The step is the handling of a RawDocBatch.
IxIsRawDocBatch ==
    IsSome(idx_obs') /\ idx_obs'[1].kind = "RawDocBatch"

\* The number of documents of `docs` that are `doc`.
CountOf(docs, doc) == Cardinality({i \in DOMAIN docs : docs[i] = doc})

\* The number of documents of key k the workbench holds before the step.
IxHeldBefore(k) ==
    IF IsSome(idx_workbench) /\ k \in DOMAIN idx_workbench[1].indexed_splits
    THEN Len(idx_workbench[1].indexed_splits[k].index_writer)
    ELSE 0

\* The number of valid documents of key k accumulated once the batch of
\* the step is added.
IxAccumulated(k) == IxHeldBefore(k) + CountOf(idx_obs'[1].batch.docs, k)

\* The batch sent to the packager holds one split per key that has
\* documents, with exactly the documents accumulated for the key.
IxHoldsAccumulated(indexed_split_batch) ==
    LET splits == indexed_split_batch.splits
        keys == {k \in DocKeys : IxAccumulated(k) > 0}
    IN  /\ Len(splits) = Cardinality(keys)
        /\ \A k \in keys :
              \E i \in DOMAIN splits :
                 /\ splits[i].num_docs = IxAccumulated(k)
                 /\ splits[i].index_writer = [j \in 1 .. IxAccumulated(k) |-> k]

\* C14: the handling of a batch counts its invalid documents as parse
\* errors or missing fields and adds the valid ones to the workbench; if
\* the workbench then holds split_num_docs_target valid documents or more,
\* one IndexedSplitBatch with exactly the valid documents accumulated is
\* sent to the packager and the count of the workbench is reset to 0;
\* otherwise nothing is sent and the workbench stays, below the target.
C14_CommitOnNumDocsTarget ==
    [][IxIsRawDocBatch =>
         LET docs == idx_obs'[1].batch.docs
             valid == Len(docs) - CountOf(docs, ParsingError)
                                - CountOf(docs, MissingField)
             held == idx_counters.num_docs_in_workbench + valid
         IN  /\ idx_counters'.num_parse_errors
                  = idx_counters.num_parse_errors + CountOf(docs, ParsingError)
             /\ idx_counters'.num_missing_fields
                  = idx_counters.num_missing_fields + CountOf(docs, MissingField)
             /\ idx_counters'.num_valid_docs
                  = idx_counters.num_valid_docs + valid
             /\ IF held >= SplitNumDocsTarget
                THEN /\ Len(pk_queue') = Len(pk_queue) + 1
                     /\ SubSeq(pk_queue', 1, Len(pk_queue)) = pk_queue
                     /\ IxHoldsAccumulated(pk_queue'[Len(pk_queue')])
                     /\ idx_counters'.num_docs_in_workbench = 0
                     /\ idx_counters'.num_split_batches_emitted
                          = idx_counters.num_split_batches_emitted + 1
                     /\ idx_workbench' = None
                ELSE /\ IxNothingEmitted
                     /\ IsSome(idx_workbench')
                     /\ idx_counters'.num_docs_in_workbench = held
                     /\ held < SplitNumDocsTarget]_vars

\* Batches of key 0, one with a document that does not parse and the last
\* one with a document that lacks a field: the last batch brings the
\* workbench to the target, and one batch of one split with all the
\* documents of key 0 is sent.
C14_Witness ==
    /\ IsSome(idx_obs) /\ idx_obs[1].kind = "RawDocBatch"
    /\ idx_obs[1].batch.docs = << MissingField, 0 >>
    /\ idx_counters.num_parse_errors = 1
    /\ idx_counters.num_missing_fields = 1
    /\ idx_counters.num_valid_docs = SplitNumDocsTarget
    /\ idx_counters.num_docs_in_workbench = 0
    /\ idx_counters.num_splits_emitted = 1
    /\ idx_counters.num_split_batches_emitted = 1
    /\ Len(pk_queue) = 1
    /\ Len(pk_queue[1].splits) = 1
    /\ pk_queue[1].splits[1].num_docs = SplitNumDocsTarget
    /\ pk_queue[1].splits[1].index_writer
          = [j \in 1 .. SplitNumDocsTarget |-> 0]
    /\ idx_workbench = None


\* The step is the exit of the actor with one of the given statuses.
IxExitsWith(statuses) ==
    /\ IsSome(idx_obs')
    /\ idx_obs'[1].kind = "Exit"
    /\ idx_obs'[1].exit_status \in statuses

\* C15: finalize runs once, in the step in which the indexer stops, and
\* the indexer does nothing after it; run with Success or Quit, it commits
\* the workbench in flight, once: the splits of the workbench, all of them
\* and nothing else, are sent to the packager with its delta; run with
\* DownstreamClosed, Killed, Failure or Panicked, it sends nothing to the
\* packager, publishes nothing and leaves the workbench where it is.
C15_FinalizeCommitsOnSuccessOrQuit ==
    [][/\ idx_finalized'
            = IF idx_status = "running" /\ idx_status' # "running"
              THEN idx_finalized + 1 ELSE idx_finalized
       /\ idx_finalized' <= 1
       /\ idx_status # "running"
            => /\ idx_status' = idx_status
               /\ pk_queue' = pk_queue
               /\ idx_workbench' = idx_workbench
               /\ idx_counters' = idx_counters
       /\ IxExitsWith({"Success", "Quit"})
            => /\ idx_workbench' = None
               /\ IF /\ IsSome(idx_workbench)
                     /\ DOMAIN idx_workbench[1].indexed_splits # {}
                  THEN LET wb == idx_workbench[1]
                           sent == pk_queue'[Len(pk_queue')]
                       IN  /\ Len(pk_queue') = Len(pk_queue) + 1
                           /\ SubSeq(pk_queue', 1, Len(pk_queue)) = pk_queue
                           /\ Len(sent.splits)
                                = Cardinality(DOMAIN wb.indexed_splits)
                           /\ SeqRange(sent.splits)
                                = {wb.indexed_splits[k] :
                                     k \in DOMAIN wb.indexed_splits}
                           /\ sent.checkpoint_delta = Some(wb.checkpoint_delta)
                           /\ IxNothingPublished
                  ELSE IxNothingEmitted
       /\ IxExitsWith({"DownstreamClosed", "Killed", "Failure", "Panicked"})
            => /\ IxNothingEmitted
               /\ IxNothingPublished
               /\ idx_workbench' = idx_workbench]_vars

\* The indexer was told to quit with a workbench of one document in flight:
\* finalize has run once and the split of the workbench is in the queue of
\* the packager.
C15_Witness ==
    /\ idx_obs = Some([kind |-> "Exit", exit_status |-> "Quit"])
    /\ idx_status = "Quit"
    /\ idx_finalized = 1
    /\ idx_workbench = None
    /\ idx_counters.num_valid_docs = 1
    /\ idx_counters.num_docs_in_workbench = 0
    /\ idx_counters.num_split_batches_emitted = 1
    /\ Len(pk_queue) = 1
    /\ Len(pk_queue[1].splits) = 1
    /\ pk_queue[1].splits[1].num_docs = 1
    /\ publish_log = << >>


\* The splits the workbench holds after the handling of a batch: those of
\* the workbench if it stays, those sent to the packager if the batch has
\* committed it.
IxSplitsAfterBatch ==
    IF IsSome(idx_workbench')
    THEN LET indexed_splits == idx_workbench'[1].indexed_splits
         IN  ValuesOf(indexed_splits, SortedPartitions(DOMAIN indexed_splits))
    ELSE IF Len(pk_queue') > Len(pk_queue)
    THEN pk_queue'[Len(pk_queue')].splits
    ELSE << >>

\* C16: within a workbench, the handling of a batch creates one split for
\* each partition key that had no document yet and none for the others,
\* and adds every valid document to the split of its key: afterwards the
\* workbench holds as many splits as its valid documents have distinct
\* keys, each with a split id of its own and with exactly the documents
\* of one key, and the split of a key that had one is still the same.
C16_OneSplitPerPartitionKey ==
    [][IxIsRawDocBatch =>
         LET keys == {k \in DocKeys : IxAccumulated(k) > 0}
             fresh == {k \in keys : IxHeldBefore(k) = 0}
             splits == IxSplitsAfterBatch
         IN  /\ idx_next_id'.split = idx_next_id.split + Cardinality(fresh)
             /\ Len(splits) = Cardinality(keys)
             /\ \A i, j \in DOMAIN splits :
                   splits[i].split_id = splits[j].split_id => i = j
             /\ \A k \in keys :
                   \E i \in DOMAIN splits :
                      /\ splits[i].index_writer
                           = [j \in 1 .. IxAccumulated(k) |-> k]
                      /\ splits[i].num_docs = IxAccumulated(k)
                      /\ k \notin fresh
                           => splits[i].split_id
                                = idx_workbench[1].indexed_splits[k].split_id
             /\ IsSome(idx_workbench')
                   => DOMAIN idx_workbench'[1].indexed_splits = keys]_vars

\* A workbench with one document of key 0 is sent a batch with a document
\* of key 0 and one of key 1 and is committed by it: two splits are sent,
\* the split the workbench had for key 0, now with both documents of key
\* 0, and a new one with the document of key 1.
C16_Witness ==
    /\ IsSome(idx_obs) /\ idx_obs[1].kind = "RawDocBatch"
    /\ idx_obs[1].batch.docs = << 0, 1 >>
    /\ idx_counters.num_valid_docs = 3
    /\ idx_counters.num_splits_emitted = 2
    /\ idx_counters.num_split_batches_emitted = 1
    /\ Len(pk_queue) = 1
    /\ Len(pk_queue[1].splits) = 2
    /\ pk_queue[1].splits[1].index_writer = << 0, 0 >>
    /\ pk_queue[1].splits[2].index_writer = << 1 >>
    /\ pk_queue[1].splits[1].split_id # pk_queue[1].splits[2].split_id


\* The workbench in flight is the one with this id.
IxCurrentWorkbench(workbench_id) ==
    /\ IsSome(idx_workbench)
    /\ idx_workbench[1].workbench_id = workbench_id

\* C17: while the indexer runs, the CommitTimeout of the workbench in
\* flight stays scheduled whatever batches are handled, and the workbench
\* is eventually committed (by its timeout, if the documents do not reach
\* the target first) unless the indexer stops.
C17_CommitTimeoutNeverLost ==
    \A w \in 1 .. MaxBatches :
       /\ [](IxCurrentWorkbench(w) /\ idx_status = "running"
               => w \in idx_timeouts)
       /\ (IxCurrentWorkbench(w) /\ idx_status = "running")
             ~> (~IxCurrentWorkbench(w) \/ idx_status # "running")

\* A workbench was sent two batches, a second one after the one that
\* created it, and stayed below the target; then its CommitTimeout was
\* handled and its split was sent to the packager.
C17_Witness ==
    /\ idx_obs = Some([kind |-> "CommitTimeout", workbench_id |-> 1])
    /\ idx_status = "running"
    /\ src_emitted = 2
    /\ idx_scheduled = << 1 >>
    /\ idx_workbench = None
    /\ idx_counters.num_valid_docs = 1
    /\ idx_counters.num_split_batches_emitted = 1
    /\ Len(pk_queue) = 1
    /\ 1 \notin idx_timeouts


(***************************************************************************)
(* SpecDelta: SourceCheckpointDelta::extend and                            *)
(* SourceCheckpoint::try_apply_delta on every pair of deltas and every     *)
(* checkpoint over two partitions and a bounded range of positions.        *)
(***************************************************************************)
DeltaPartitions == {0, 1}

\* The largest offset of the deltas and checkpoints of SpecDelta.
MaxDeltaPosition == 1

DeltaPositions == Beginning .. MaxDeltaPosition

DeltaEntries ==
    {[from |-> ft[1], to |-> ft[2]] :
        ft \in {x \in DeltaPositions \X DeltaPositions : x[1] < x[2]}}

MapsOver(S, V) == UNION {[D -> V] : D \in SUBSET S}

DeltaInputs == MapsOver(DeltaPartitions, DeltaEntries)

CheckpointInputs == MapsOver(DeltaPartitions, DeltaPositions)

InitDelta ==
    /\ ExtOff
    /\ dl_pc = "start"
    /\ dl_d1 \in DeltaInputs
    /\ dl_d2 \in DeltaInputs
    /\ dl_ck \in CheckpointInputs
    /\ dl_ext = None
    /\ dl_lhs = None
    /\ dl_rhs = None
    /\ MetastoreOff
    /\ PublisherOff
    /\ GcOff
    /\ UploadersOff
    /\ PipelineOff

\* d1.extend(d2)
DlExtend ==
    /\ dl_pc = "start"
    /\ dl_ext' = Some(Extend(dl_d1, dl_d2))
    /\ dl_pc' = IF Extend(dl_d1, dl_d2).ok THEN "extended" ELSE "failed"
    /\ UNCHANGED << dl_d1, dl_d2, dl_ck, dl_lhs, dl_rhs >>
    /\ UNCHANGED deltaOthers

\* ck.try_apply_delta(d1.extend(d2))
DlApplyComposed ==
    /\ dl_pc = "extended"
    /\ dl_lhs' = Some(TryApplyDelta(dl_ck, dl_ext[1].delta))
    /\ dl_pc' = "composed"
    /\ UNCHANGED << dl_d1, dl_d2, dl_ck, dl_ext, dl_rhs >>
    /\ UNCHANGED deltaOthers

\* ck.try_apply_delta(d1) and then try_apply_delta(d2)
DlApplyInTurn ==
    /\ dl_pc = "composed"
    /\ LET first == TryApplyDelta(dl_ck, dl_d1)
       IN  dl_rhs' = Some(IF first.ok THEN TryApplyDelta(first.ck, dl_d2)
                          ELSE first)
    /\ dl_pc' = "done"
    /\ UNCHANGED << dl_d1, dl_d2, dl_ck, dl_ext, dl_lhs >>
    /\ UNCHANGED deltaOthers

NextDelta == DlExtend \/ DlApplyComposed \/ DlApplyInTurn

SpecDelta == InitDelta /\ [][NextDelta]_vars

\* C9: d1.extend(d2) fails exactly when d2.from[p] # d1.to[p] for a
\* partition p of both deltas; otherwise, for every checkpoint d1 applies
\* to, applying the extended delta gives the result of applying d1 and then
\* d2 (the same checkpoint, or a failure on both sides).
C9_ExtendIsComposition ==
    /\ IsSome(dl_ext) =>
          (dl_ext[1].ok <=>
              \A p \in DOMAIN dl_d1 \cap DOMAIN dl_d2 :
                  dl_d2[p].from = dl_d1[p].to)
    /\ ( /\ dl_pc = "done"
         /\ \A p \in DOMAIN dl_d1 : PositionOf(dl_ck, p) = dl_d1[p].from ) =>
          /\ dl_lhs[1].ok = dl_rhs[1].ok
          /\ dl_lhs[1].ok => dl_lhs[1].ck = dl_rhs[1].ck
          /\ dl_lhs[1].ok =>
                \A p \in DOMAIN dl_d2 : dl_lhs[1].ck[p] = dl_d2[p].to

\* d1 and d2 share partition 0, d2 alone has partition 1, and both sides
\* of the law succeeded.
C9_Witness ==
    /\ dl_pc = "done"
    /\ DOMAIN dl_d1 = {0}
    /\ DOMAIN dl_d2 = {0, 1}
    /\ dl_d1[0].from # dl_d2[0].from
    /\ dl_lhs[1].ok
    /\ dl_rhs[1].ok
    /\ dl_lhs[1].ck = dl_rhs[1].ck

(***************************************************************************)
(* SpecUploaders: the uploader actors of the process, two of one pipeline  *)
(* and those of the next ones, around CONCURRENT_UPLOAD_PERMITS, the one   *)
(* semaphore they share.  A task is followed from its spawning to its end; *)
(* what it stages and stores is in Spec.                                   *)
(***************************************************************************)
MaxUploaders == 3

MaxUploaderBatches == 2

Uploaders == 1 .. MaxUploaders

\* The pipeline of an uploader, and so its kill switch: the uploaders of a
\* pipeline, told apart by their actor_name, come in pairs here.
PipelineOfUploader(u) == (u + 1) \div 2

UploaderPipelines == {PipelineOfUploader(u) : u \in Uploaders}

\* A mutation of AcquireSemaphore: a permit is handed out even when none
\* is left.
AcquireSemaphoreUnbounded(available) ==
    [acquired |-> TRUE,
     available |-> IF available > 0 THEN available - 1 ELSE 0]

\* Semaphore::acquire on CONCURRENT_UPLOAD_PERMITS: completes when a permit
\* is available, and takes it.
AcquireSemaphore(available) ==
    [acquired |-> available > 0, available |-> available - 1]

RECURSIVE SumOver(_, _)
SumOver(f, keys) ==
    IF keys = {} THEN 0
    ELSE LET k == CHOOSE x \in keys : TRUE
         IN  f[k] + SumOver(f, keys \ {k})

\* The upload tasks in progress in the process.
TasksInProgress == SumOver(ul_running, Uploaders)

InitUploaders ==
    /\ ExtOff
    /\ ul_pc = [u \in Uploaders |-> "idle"]
    /\ ul_received = [u \in Uploaders |-> 0]
    /\ ul_running = [u \in Uploaders |-> 0]
    /\ ul_killed = [p \in UploaderPipelines |-> FALSE]
    /\ permits = MAX_CONCURRENT_SPLIT_UPLOAD
    /\ ms_splits = EmptyMap
    /\ ms_checkpoint = EmptyMap
    /\ storage = EmptyMap
    /\ ever_staged = {}
    /\ ever_marked = {}
    /\ PublisherOff
    /\ GcOff
    /\ DeltaOff
    /\ src_pos = Beginning
    /\ src_emitted = 0
    /\ idx_status = "off"
    /\ idx_workbench = None
    /\ idx_counters = None
    /\ idx_timeouts = {}
    /\ idx_next_id = 0
    /\ idx_scheduled = << >>
    /\ idx_finalized = 0
    /\ pk_queue = << >>
    /\ up_pc = "off"
    /\ up_batch = None
    /\ tasks = << >>
    /\ seq_queue = << >>
    /\ chan = << >>
    /\ killed = FALSE
    /\ init_checkpoint = EmptyMap
    /\ idx_obs = None
    /\ publish_log = << >>
    /\ done_early = {}
    /\ stage_failed = {}
    /\ idx_received = 0

uploadersOthers ==
    << msVars, pubVars, gcVars, dlVars, idxVars, histVars, idx_received,
       pk_queue, up_pc, up_batch, tasks, seq_queue, chan, killed,
       extVars >>

\* Handler<PackagedSplitBatch> for Uploader, up to the wait for a permit:
\* the uploader takes the next batch of its mailbox, sends the receiver to
\* its sequencer and waits.
UlHandleEnqueue(u) ==
    /\ ~ul_killed[PipelineOfUploader(u)]
    /\ ul_pc[u] = "idle"
    /\ ul_received[u] < MaxUploaderBatches
    /\ ul_received' = [ul_received EXCEPT ![u] = @ + 1]
    /\ ul_pc' = [ul_pc EXCEPT ![u] = "acquire"]
    /\ UNCHANGED << ul_running, ul_killed, permits >>
    /\ UNCHANGED uploadersOthers

\* Handler<PackagedSplitBatch> for Uploader, from the permit on: with a
\* dead kill switch the handler returns and the permit goes back, else the
\* task is spawned and keeps the permit.
UlHandleSpawn(u) ==
    /\ ul_pc[u] = "acquire"
    /\ LET permit == AcquireSemaphore(permits)
       IN  /\ permit.acquired
           /\ IF ul_killed[PipelineOfUploader(u)]
              THEN /\ ul_pc' = [ul_pc EXCEPT ![u] = "Killed"]
                   /\ UNCHANGED << ul_running, permits >>
              ELSE /\ ul_pc' = [ul_pc EXCEPT ![u] = "idle"]
                   /\ ul_running' = [ul_running EXCEPT ![u] = @ + 1]
                   /\ permits' = permit.available
    /\ UNCHANGED << ul_received, ul_killed >>
    /\ UNCHANGED uploadersOthers

\* How a spawned task ends: the SplitUpdate is sent, a split could not be
\* staged or stored, the send of the SplitUpdate failed, the task panicked.
TaskOutcomes == {"sent", "upload failed", "send failed", "panicked"}

\* A mutation of UlTaskEnds: a task that panics keeps its permit.
UlTaskEndsPanicKeepsPermit(u, outcome) ==
    /\ ul_running[u] > 0
    /\ ul_running' = [ul_running EXCEPT ![u] = @ - 1]
    /\ permits' = IF outcome = "panicked" THEN permits ELSE permits + 1
    /\ ul_killed' = IF outcome # "upload failed" THEN ul_killed
                    ELSE [ul_killed EXCEPT ![PipelineOfUploader(u)] = TRUE]
    /\ UNCHANGED << ul_pc, ul_received >>
    /\ UNCHANGED uploadersOthers

\* The end of a spawned task: the permit, moved into the task, is dropped
\* with it however it ends; a failed upload fires the kill switch first.
UlTaskEnds(u, outcome) ==
    /\ ul_running[u] > 0
    /\ ul_running' = [ul_running EXCEPT ![u] = @ - 1]
    /\ permits' = permits + 1
    /\ ul_killed' = IF outcome # "upload failed" THEN ul_killed
                    ELSE [ul_killed EXCEPT ![PipelineOfUploader(u)] = TRUE]
    /\ UNCHANGED << ul_pc, ul_received >>
    /\ UNCHANGED uploadersOthers

NextUploaders ==
    \/ \E u \in Uploaders : UlHandleEnqueue(u)
    \/ \E u \in Uploaders : UlHandleSpawn(u)
    \/ \E u \in Uploaders, outcome \in TaskOutcomes : UlTaskEnds(u, outcome)

SpecUploaders == InitUploaders /\ [][NextUploaders]_vars

(***************************************************************************)
(* Claims checked under SpecUploaders.                                     *)
(***************************************************************************)
\* C19: at most MAX_CONCURRENT_SPLIT_UPLOAD upload tasks are in progress in
\* the process, over all its uploaders; each of them holds one permit of
\* the semaphore, and a task is spawned only by a handler that has just
\* taken a permit that was available.
C19_AtMostFourUploadsInProgress ==
    [][/\ MAX_CONCURRENT_SPLIT_UPLOAD = 4
       /\ TasksInProgress' <= MAX_CONCURRENT_SPLIT_UPLOAD
       /\ permits' = MAX_CONCURRENT_SPLIT_UPLOAD - TasksInProgress'
       /\ \A u \in Uploaders :
             ul_running'[u] > ul_running[u]
                => /\ ul_pc[u] = "acquire"
                   /\ permits > 0
                   /\ permits' = permits - 1
                   /\ ul_running'[u] = ul_running[u] + 1]_vars

\* Four tasks are in progress, of uploaders of two pipelines, no permit is
\* left, and an uploader that has received a fifth batch waits for one.
C19_Witness ==
    /\ TasksInProgress = MAX_CONCURRENT_SPLIT_UPLOAD
    /\ permits = 0
    /\ \E u, v \in Uploaders :
          /\ PipelineOfUploader(u) # PipelineOfUploader(v)
          /\ ul_running[u] > 0
          /\ ul_running[v] > 0
    /\ \E u \in Uploaders : ul_pc[u] = "acquire"

(***************************************************************************)
(* SpecPublishOperation: make_publish_operation at the end of an upload    *)
(* task, on batches of packaged splits that replace splits (the batches    *)
(* of a merge) or not, as in test_uploader_1 and                           *)
(* test_uploader_emits_replace.                                            *)
(***************************************************************************)
MaxPackagedSplits == 2

MaxReplacedSplits == 2

\* The ids of the splits a packaged split can replace.
ReplacedSplitIds == 1 .. MaxReplacedSplits

\* The ids of the packaged splits of a batch, by their rank.
PackagedSplitId(rank) == 100 + rank

\* The replaced_split_ids of a packaged split: none, one, or two that may
\* be the same.
ReplacedSplitIdVecs ==
    {<< >>} \cup {<< r >> : r \in ReplacedSplitIds}
            \cup {<< r, q >> : r, q \in ReplacedSplitIds}

\* The batches of n packaged splits of an index, in the order of their
\* ids or in the reverse order.
PackagedSplitBatchesOf(n, index_id) ==
    {[i \in 1 .. n |->
        [split_id |-> PackagedSplitId(IF reversed THEN n + 1 - i ELSE i),
         index_id |-> index_id,
         replaced_split_ids |-> replaced[i],
         footer_end |-> i + 1]] :
       replaced \in [1 .. n -> ReplacedSplitIdVecs], reversed \in BOOLEAN}

PublishOperationInputs ==
    {[splits |-> splits, checkpoint_delta_opt |-> checkpoint_delta_opt,
      date_of_birth |-> date_of_birth] :
       splits \in UNION {PackagedSplitBatchesOf(n, index_id) :
                           n \in 1 .. MaxPackagedSplits,
                           index_id \in {IndexId, "test-index"}},
       checkpoint_delta_opt \in
          {None, Some(IndexCheckpointDelta(
                        [p \in {DefaultPartition} |->
                           [from |-> Beginning, to |-> 0]]))},
       date_of_birth \in {1, 2}}

\* The task of a batch whose splits are all staged and stored.
UploadedTask(batch) ==
    [UploadTask(batch) EXCEPT
       !.i = Len(batch.splits),
       !.step = Len(StageAndUploadSteps),
       !.metadatas = [i \in DOMAIN batch.splits |->
                        SplitMetadata(batch.splits[i].split_id,
                                      batch.splits[i].footer_end)]]

InitPublishOperation ==
    /\ ExtOff
    /\ \E batch \in PublishOperationInputs : tasks = << UploadedTask(batch) >>
    /\ chan = << [state |-> "pending", update |-> None] >>
    /\ permits = MAX_CONCURRENT_SPLIT_UPLOAD - 1
    /\ ms_splits = EmptyMap
    /\ ms_checkpoint = EmptyMap
    /\ storage = EmptyMap
    /\ ever_staged = {}
    /\ ever_marked = {}
    /\ PublisherOff
    /\ GcOff
    /\ DeltaOff
    /\ UploadersOff
    /\ src_pos = Beginning
    /\ src_emitted = 0
    /\ idx_status = "off"
    /\ idx_workbench = None
    /\ idx_counters = None
    /\ idx_timeouts = {}
    /\ idx_next_id = 0
    /\ idx_scheduled = << >>
    /\ idx_finalized = 0
    /\ pk_queue = << >>
    /\ up_pc = "idle"
    /\ up_batch = None
    /\ seq_queue = << 1 >>
    /\ killed = FALSE
    /\ init_checkpoint = EmptyMap
    /\ idx_obs = None
    /\ publish_log = << >>
    /\ done_early = {}
    /\ stage_failed = {}
    /\ idx_received = 0

publishOperationOthers ==
    << msVars, pubVars, gcVars, dlVars, ulVars, extVars, idxVars, histVars,
       idx_received, pk_queue, up_pc, up_batch, seq_queue, killed >>

\* The end of the spawned task, after the last split is stored: the
\* SplitUpdate is made and sent on the channel, and the permit is dropped.
PoTaskSends(c) ==
    /\ c \in DOMAIN tasks
    /\ tasks[c].state = "running"
    /\ \E publisher_message \in
             MakePublishOperation(
                BatchIndexId(tasks[c].splits),
                PackagedSplitsAndMetadatas(tasks[c].splits,
                                           tasks[c].metadatas),
                tasks[c].checkpoint_delta_opt,
                tasks[c].date_of_birth) :
          chan' = [chan EXCEPT ![c] = [state |-> "sent",
                                       update |-> Some(publisher_message)]]
    /\ tasks' = [tasks EXCEPT ![c].state = "done"]
    /\ permits' = permits + 1
    /\ UNCHANGED publishOperationOthers

NextPublishOperation == \E c \in {1} : PoTaskSends(c)

SpecPublishOperation == InitPublishOperation /\ [][NextPublishOperation]_vars

(***************************************************************************)
(* Claims checked under SpecPublishOperation.                              *)
(***************************************************************************)
\* C20: the SplitUpdate a task sends has the index id of its batch, the
\* metadata of every split of the batch in the order of the batch as its
\* new splits, every replaced split id of every split of the batch once
\* and nothing else as its replaced split ids, and the checkpoint delta
\* and the date of birth of the batch.
C20_SplitUpdateOfBatch ==
    \A c \in DOMAIN chan :
       chan[c].state = "sent" =>
          LET update == chan[c].update[1]
              batch == tasks[c]
          IN  /\ \A i \in DOMAIN batch.splits :
                    update.index_id = batch.splits[i].index_id
              /\ Len(update.new_splits) = Len(batch.splits)
              /\ \A i \in DOMAIN batch.splits :
                    /\ update.new_splits[i] = batch.metadatas[i]
                    /\ update.new_splits[i].split_id = batch.splits[i].split_id
              /\ SeqRange(update.replaced_split_ids)
                    = UNION {SeqRange(batch.splits[i].replaced_split_ids) :
                               i \in DOMAIN batch.splits}
              /\ \A i, j \in DOMAIN update.replaced_split_ids :
                    update.replaced_split_ids[i] = update.replaced_split_ids[j]
                       => i = j
              /\ update.checkpoint_delta_opt = batch.checkpoint_delta_opt
              /\ update.date_of_birth = batch.date_of_birth

\* As in test_uploader_emits_replace: a batch of two splits, not in the
\* order of their ids, that both replace the same two splits, without a
\* checkpoint delta; the SplitUpdate names each replaced split once.
C20_Witness ==
    /\ chan[1].state = "sent"
    /\ Len(tasks[1].splits) = 2
    /\ tasks[1].splits[1].split_id > tasks[1].splits[2].split_id
    /\ tasks[1].splits[1].replaced_split_ids = << 1, 2 >>
    /\ tasks[1].splits[2].replaced_split_ids = << 1, 2 >>
    /\ tasks[1].checkpoint_delta_opt = None
    /\ Len(chan[1].update[1].new_splits) = 2
    /\ Len(chan[1].update[1].replaced_split_ids) = 2
    /\ chan[1].update[1].index_id = "test-index"


(***************************************************************************)
(* SpecKafka: the Kafka source (quickwit-indexing/src/source/              *)
(* kafka_source.rs) under rebalances of its consumer group, the indexer    *)
(* workbench it feeds and the publication of that workbench.  The topic    *)
(* holds two messages in each of its two partitions.                       *)
(***************************************************************************)
KafkaPartitions == {0, 1}

\* The offsets of the messages of every partition of the topic.
TopicOffsets == {0, 1}

\* Cap on the number of revocations.
MaxRebalances == 1

\* rdkafka::Offset, as far as the source uses it.
OffsetBeginning == [kind |-> "Beginning"]

OffsetOffset(offset) == [kind |-> "Offset", offset |-> offset]

\* A mutation of ComputeNextOffset: the partition is sought to the position
\* of the checkpoint, not to the one after it.
ComputeNextOffsetAtPosition(source_checkpoint, partition) ==
    IF partition \in DOMAIN source_checkpoint
          /\ source_checkpoint[partition] # Beginning
    THEN OffsetOffset(source_checkpoint[partition])
    ELSE OffsetBeginning

\* compute_next_offset: the offset after the position of the checkpoint, the
\* beginning for a partition the checkpoint has no offset for.
ComputeNextOffset(source_checkpoint, partition) ==
    IF partition \in DOMAIN source_checkpoint
          /\ source_checkpoint[partition] # Beginning
    THEN IF source_checkpoint[partition] < 0
         THEN OffsetBeginning
         ELSE OffsetOffset(source_checkpoint[partition] + 1)
    ELSE OffsetBeginning

\* partition.set_offset(offset) in RdKafkaContext::post_rebalance: the
\* consumer fetches next the first offset of the log, or the offset given.
SetOffset(offset) ==
    IF offset.kind = "Beginning" THEN 0 ELSE offset.offset

DefaultKafkaSourceState ==
    [assigned_partitions |-> {}, current_positions |-> EmptyMap]

\* A message of the topic.
KafkaDoc(partition, offset) == [partition |-> partition, offset |-> offset]

\* History: the number of revocations before the first message of a batch
\* or of a workbench was consumed.
Born(held, generation) ==
    IF held.docs = << >> THEN generation ELSE held.born

\* KafkaSource::process_kafka_message for KafkaMessage::Message, with the
\* partitions and the positions of the KafkaSourceState.
KafkaSourceProcessMessage(state, batch, doc, generation) ==
    LET previous_position ==
            IF doc.partition \in DOMAIN state.current_positions
            THEN state.current_positions[doc.partition]
            ELSE PreviousPositionForOffset(doc.offset)
    IN  [ok |-> /\ doc.partition \in state.assigned_partitions
                /\ RecordPartitionDeltaOk(batch.checkpoint_delta, doc.partition,
                                          previous_position),
         state |-> [state EXCEPT !.current_positions =
                      [q \in DOMAIN @ \cup {doc.partition} |->
                          IF q = doc.partition THEN doc.offset ELSE @[q]]],
         batch |-> [docs |-> Append(batch.docs, doc),
                    checkpoint_delta |->
                       RecordPartitionDelta(batch.checkpoint_delta, doc.partition,
                                            previous_position, doc.offset),
                    born |-> Born(batch, generation)]]

\* KafkaSource::process_post_rebalance: index_metadata_opt is the reply of
\* the metastore (None when the call fails), ack_ok whether the consumer
\* context still waits for the offsets.
ProcessPostRebalance(state, index_metadata_opt, assignment, ack_ok) ==
    IF ~IsSome(index_metadata_opt) \/ ~ack_ok
    THEN [ok |-> FALSE, state |-> state, next_offsets |-> EmptyMap]
    ELSE [ok |-> TRUE,
          state |-> [state EXCEPT !.assigned_partitions = assignment],
          next_offsets |->
             [p \in assignment |-> ComputeNextOffset(index_metadata_opt[1], p)]]

\* BatchBuilder::default, with its history.
KafkaBatchBuilderDefault ==
    [docs |-> << >>, checkpoint_delta |-> EmptyMap, born |-> 0]

InitKafka ==
    /\ SliceCacheOff
    /\ MultipartOff
    /\ TailOff
    /\ MetastoreOff
    /\ PublisherOff
    /\ GcOff
    /\ DeltaOff
    /\ UploadersOff
    /\ PipelineOff
    /\ kf_status = "running"
    /\ kf_state = DefaultKafkaSourceState
    /\ kf_consumer = EmptyMap
    /\ kf_batch = KafkaBatchBuilderDefault
    /\ kf_mailbox = << >>
    /\ kf_workbench = None
    /\ kf_checkpoint \in {EmptyMap, [p \in {0} |-> 0]}
    /\ kf_generation = 0
    /\ kf_expected = [p \in KafkaPartitions |-> Beginning]
    /\ kf_obs = None

kafkaOthers ==
    << msVars, pubVars, gcVars, dlVars, pipeVars, ulVars, scVars, mpVars,
       tailVars >>

\* Rebalance::Revoke: pre_rebalance and post_rebalance send an event to the
\* source for Rebalance::Assign only, so that the source and the indexer go
\* on as they are while the consumer loses its partitions.
KfRevoke ==
    /\ kf_status = "running"
    /\ DOMAIN kf_consumer # {}
    /\ kf_generation < MaxRebalances
    /\ kf_consumer' = EmptyMap
    /\ kf_generation' = kf_generation + 1
    /\ kf_obs' = None
    /\ UNCHANGED << kf_status, kf_state, kf_batch, kf_mailbox, kf_workbench,
                    kf_checkpoint, kf_expected >>
    /\ UNCHANGED kafkaOthers

\* Rebalance::Assign: RebalanceEvent::Starting is acked by
\* process_pre_rebalance, then RebalanceEvent::Assignment is handled by
\* process_post_rebalance and the consumer sets the offsets it is sent.
KfAssign(assignment, fetch_ok, ack_ok) ==
    /\ kf_status = "running"
    /\ DOMAIN kf_consumer = {}
    /\ LET res == ProcessPostRebalance(
                     kf_state, IF fetch_ok THEN Some(kf_checkpoint) ELSE None,
                     assignment, ack_ok)
       IN  /\ kf_status' = IF res.ok THEN "running" ELSE "Failure"
           /\ kf_state' = res.state
           /\ kf_consumer' = [p \in DOMAIN res.next_offsets |->
                                 SetOffset(res.next_offsets[p])]
           /\ kf_expected' = IF res.ok
                             THEN [p \in KafkaPartitions |->
                                     IF p \in assignment
                                     THEN PositionOf(kf_checkpoint, p)
                                     ELSE kf_expected[p]]
                             ELSE kf_expected
           /\ kf_obs' = Some([kind |-> "Assignment", assignment |-> assignment,
                              fetch_ok |-> fetch_ok, ack_ok |-> ack_ok,
                              checkpoint |-> kf_checkpoint])
    /\ UNCHANGED << kf_batch, kf_mailbox, kf_workbench, kf_checkpoint,
                    kf_generation >>
    /\ UNCHANGED kafkaOthers

\* The poll loop hands the next message of an assigned partition to
\* emit_batches, which calls process_kafka_message.
KfMessage(partition) ==
    /\ kf_status = "running"
    /\ partition \in DOMAIN kf_consumer
    /\ kf_consumer[partition] \in TopicOffsets
    /\ LET doc == KafkaDoc(partition, kf_consumer[partition])
           res == KafkaSourceProcessMessage(kf_state, kf_batch, doc,
                                            kf_generation)
       IN  /\ kf_status' = IF res.ok THEN "running" ELSE "Failure"
           /\ kf_state' = res.state
           /\ kf_batch' = res.batch
    /\ kf_consumer' = [kf_consumer EXCEPT ![partition] = @ + 1]
    /\ kf_obs' = None
    /\ UNCHANGED << kf_mailbox, kf_workbench, kf_checkpoint, kf_generation,
                    kf_expected >>
    /\ UNCHANGED kafkaOthers

\* The end of emit_batches (deadline or target size): a batch whose delta
\* is not empty is sent to the indexer.
KfEmitBatch ==
    /\ kf_status = "running"
    /\ kf_batch.checkpoint_delta # EmptyMap
    /\ kf_mailbox = << >>
    /\ kf_mailbox' = << kf_batch >>
    /\ kf_batch' = KafkaBatchBuilderDefault
    /\ kf_expected' = [p \in KafkaPartitions |->
                         IF p \in DOMAIN kf_batch.checkpoint_delta
                         THEN kf_batch.checkpoint_delta[p].to
                         ELSE kf_expected[p]]
    /\ kf_obs' = Some([kind |-> "Batch",
                       checkpoint_delta |-> kf_batch.checkpoint_delta,
                       expected |-> kf_expected])
    /\ UNCHANGED << kf_status, kf_state, kf_consumer, kf_workbench,
                    kf_checkpoint, kf_generation >>
    /\ UNCHANGED kafkaOthers

\* Handler<RawDocBatch> of the indexer: the docs and the delta of the batch
\* are added to the workbench, created when there is none; a delta that does
\* not extend the workbench's fails the indexer, and with it the pipeline.
KfIndexerHandleRawDocBatch ==
    /\ kf_status = "running"
    /\ kf_mailbox # << >>
    /\ LET batch == Head(kf_mailbox)
           workbench == IF IsSome(kf_workbench) THEN kf_workbench[1]
                        ELSE KafkaBatchBuilderDefault
           ext == Extend(workbench.checkpoint_delta, batch.checkpoint_delta)
       IN  /\ kf_status' = IF ext.ok THEN "running" ELSE "Failure"
           /\ kf_workbench' = IF ext.ok
                              THEN Some([docs |-> workbench.docs \o batch.docs,
                                         checkpoint_delta |-> ext.delta,
                                         born |-> Born(workbench, batch.born)])
                              ELSE kf_workbench
    /\ kf_mailbox' = Tail(kf_mailbox)
    /\ kf_obs' = None
    /\ UNCHANGED << kf_state, kf_consumer, kf_batch, kf_checkpoint,
                    kf_generation, kf_expected >>
    /\ UNCHANGED kafkaOthers

\* The workbench is committed (CommitTimeout or split_num_docs_target) and
\* its splits are published with its delta: publish_splits applies the delta
\* to the checkpoint of the source or fails, and a failure ends the pipeline.
KfPublishWorkbench ==
    /\ kf_status = "running"
    /\ IsSome(kf_workbench)
    /\ LET res == TryApplyDelta(kf_checkpoint, kf_workbench[1].checkpoint_delta)
       IN  /\ kf_status' = IF res.ok THEN "running" ELSE "Failure"
           /\ kf_checkpoint' = res.ck
           /\ kf_obs' = Some([kind |-> "Publish", ok |-> res.ok,
                              docs |-> kf_workbench[1].docs,
                              checkpoint_delta |->
                                 kf_workbench[1].checkpoint_delta,
                              born |-> kf_workbench[1].born])
    /\ kf_workbench' = None
    /\ UNCHANGED << kf_state, kf_consumer, kf_batch, kf_mailbox, kf_generation,
                    kf_expected >>
    /\ UNCHANGED kafkaOthers

NextKafka ==
    \/ KfRevoke
    \/ \E assignment \in (SUBSET KafkaPartitions) \ {{}},
          fetch_ok \in BOOLEAN, ack_ok \in BOOLEAN :
          KfAssign(assignment, fetch_ok, ack_ok)
    \/ \E partition \in KafkaPartitions : KfMessage(partition)
    \/ KfEmitBatch
    \/ KfIndexerHandleRawDocBatch
    \/ KfPublishWorkbench

SpecKafka == InitKafka /\ [][NextKafka]_vars


(***************************************************************************)
(* Claims checked under SpecKafka.                                         *)
(***************************************************************************)
\* C22: on every partition assignment the source reads the checkpoint the
\* metastore holds for it at that moment, and the consumer is set, for every
\* assigned partition and for no other, to the offset after the position of
\* the checkpoint, or to the first offset when the checkpoint has no offset
\* for the partition; when the checkpoint cannot be fetched or the offsets
\* cannot be handed to the consumer, the source fails and the consumer is
\* given no partition to consume.
C22_AssignmentSeeksAfterCheckpoint ==
    (IsSome(kf_obs) /\ kf_obs[1].kind = "Assignment") =>
        LET o == kf_obs[1]
        IN  /\ o.checkpoint = kf_checkpoint
            /\ IF o.fetch_ok /\ o.ack_ok
               THEN /\ kf_status = "running"
                    /\ DOMAIN kf_consumer = o.assignment
                    /\ kf_state.assigned_partitions = o.assignment
                    /\ \A p \in o.assignment :
                          kf_consumer[p] =
                             IF p \in DOMAIN kf_checkpoint /\ kf_checkpoint[p] >= 0
                             THEN kf_checkpoint[p] + 1
                             ELSE 0
               ELSE /\ kf_status = "Failure"
                    /\ kf_consumer = EmptyMap

\* After a publish has moved partition 0 to position 1, a rebalance assigns
\* both partitions: partition 0 is sought to offset 2, partition 1 to 0.
C22_Witness ==
    /\ IsSome(kf_obs)
    /\ kf_obs[1].kind = "Assignment"
    /\ kf_generation >= 1
    /\ kf_checkpoint = [p \in {0} |-> 1]
    /\ kf_status = "running"
    /\ kf_consumer = [p \in KafkaPartitions |-> IF p = 0 THEN 2 ELSE 0]

\* C23: the docs and the delta of a workbench are never published after a
\* revocation of the partitions that came after the workbench's first
\* message was consumed.
C23_RevokedWorkNeverPublished ==
    (IsSome(kf_obs) /\ kf_obs[1].kind = "Publish" /\ kf_obs[1].ok) =>
        kf_obs[1].born = kf_generation

\* C24: in every batch the source emits, the delta of each partition starts
\* at the position expected for it: the `to` of the delta emitted before for
\* the partition, or the position the metastore held for it at the latest
\* assignment when no batch was emitted for it since.
C24_BatchDeltaStartsAtCheckpoint ==
    (IsSome(kf_obs) /\ kf_obs[1].kind = "Batch") =>
        \A p \in DOMAIN kf_obs[1].checkpoint_delta :
           kf_obs[1].checkpoint_delta[p].from = kf_obs[1].expected[p]


(***************************************************************************)
(* SpecSliceCache: one SliceCache (quickwit-storage/src/cache/             *)
(* in_ram_slice_cache.rs) created with a capacity, under any sequence of   *)
(* put and get calls.  The cache it wraps is bounded by max_capacity with  *)
(* the length of the payload as weight, evicts the least recently used     *)
(* entries and admits no entry heavier than max_capacity.                  *)
(***************************************************************************)
\* The largest capacity a cache is created with.
MaxCapacity == 3

SlicePaths == {1, 2}

\* Range<usize> as << start, end >>: two ranges that fit every capacity
\* above 1, one a sub-range of the other, and one longer than any capacity.
SliceRanges == {<< 0, 2 >>, << 1, 2 >>, << 0, MaxCapacity + 1 >>}

\* OwnedBytes: its length and its content.
SliceBytes ==
    {[len |-> n, data |-> d] : n \in {1, 2, MaxCapacity + 1}, d \in {0, 1}}

SliceAddress(path, byte_range) == [path |-> path, byte_range |-> byte_range]

SliceAddresses == {SliceAddress(p, r) : p \in SlicePaths, r \in SliceRanges}

\* byte_range.len()
RangeLen(byte_range) ==
    IF byte_range[2] > byte_range[1] THEN byte_range[2] - byte_range[1] ELSE 0

\* The weigher of the cache: payload.len().
Weigher(payload) == payload.len

\* weighted_size(): the sum of the weights of the entries.
RECURSIVE WeightedSize(_)
WeightedSize(entries) ==
    IF entries = << >> THEN 0
    ELSE Weigher(Head(entries).payload) + WeightedSize(Tail(entries))

\* SliceCache::size_in_cache
SizeInCache(entries) == WeightedSize(entries)

\* The entries but the one of an address.
RECURSIVE WithoutAddress(_, _)
WithoutAddress(entries, slice_addr) ==
    IF entries = << >> THEN << >>
    ELSE IF Head(entries).slice_addr = slice_addr
         THEN WithoutAddress(Tail(entries), slice_addr)
         ELSE << Head(entries) >> \o WithoutAddress(Tail(entries), slice_addr)

\* A mutation of Lookup: an entry of the path is found whatever its range.
LookupByPath(entries, slice_addr) ==
    IF \E i \in DOMAIN entries : entries[i].slice_addr.path = slice_addr.path
    THEN Some((CHOOSE e \in SeqRange(entries) :
                  e.slice_addr.path = slice_addr.path).payload)
    ELSE None

\* The payload held for an address (SliceAddress derives Eq and Hash over
\* its path and its byte_range).
Lookup(entries, slice_addr) ==
    IF \E i \in DOMAIN entries : entries[i].slice_addr = slice_addr
    THEN Some((CHOOSE e \in SeqRange(entries) :
                  e.slice_addr = slice_addr).payload)
    ELSE None

\* A mutation of EvictLeastRecentlyUsed: nothing is evicted.
EvictNothing(entries, room) == entries

\* A mutation of EvictLeastRecentlyUsed: the most recently used entries go.
RECURSIVE EvictMostRecentlyUsed(_, _)
EvictMostRecentlyUsed(entries, room) ==
    IF WeightedSize(entries) <= room THEN entries
    ELSE EvictMostRecentlyUsed(SubSeq(entries, 1, Len(entries) - 1), room)

\* Eviction on overflow: the least recently used entries go until the rest
\* weighs no more than `room`.
RECURSIVE EvictLeastRecentlyUsed(_, _)
EvictLeastRecentlyUsed(entries, room) ==
    IF WeightedSize(entries) <= room THEN entries
    ELSE EvictLeastRecentlyUsed(Tail(entries), room)

\* A mutation of CacheInsert: an entry heavier than max_capacity is admitted
\* like any other.
CacheInsertAnyWeight(entries, max_capacity, slice_addr, payload) ==
    EvictLeastRecentlyUsed(WithoutAddress(entries, slice_addr),
                           IF Weigher(payload) > max_capacity THEN 0
                           ELSE max_capacity - Weigher(payload))
       \o << [slice_addr |-> slice_addr, payload |-> payload] >>

\* cache.insert(slice_addr, bytes) of the cache built with max_capacity and
\* the weigher: an entry heavier than max_capacity is not admitted; any other
\* replaces the entry of its address and becomes the most recently used one,
\* after the eviction that makes room for it.
CacheInsert(entries, max_capacity, slice_addr, payload) ==
    IF Weigher(payload) > max_capacity THEN entries
    ELSE EvictLeastRecentlyUsed(WithoutAddress(entries, slice_addr),
                                max_capacity - Weigher(payload))
            \o << [slice_addr |-> slice_addr, payload |-> payload] >>

\* cache.get(&slice_addr): the payload of the address, which becomes the most
\* recently used entry.
CacheGet(entries, slice_addr) ==
    [result |-> Lookup(entries, slice_addr),
     entries |->
        IF IsSome(Lookup(entries, slice_addr))
        THEN WithoutAddress(entries, slice_addr)
                \o << [slice_addr |-> slice_addr,
                       payload |-> Lookup(entries, slice_addr)[1]] >>
        ELSE entries]

\* SliceCache::put
SliceCachePut(entries, capacity, path, byte_range, bytes) ==
    IF RangeLen(byte_range) > capacity THEN entries
    ELSE CacheInsert(entries, capacity, SliceAddress(path, byte_range), bytes)

\* SliceCache::get
SliceCacheGet(entries, path, bytes_range) ==
    CacheGet(entries, SliceAddress(path, bytes_range))

\* SliceCache::with_capacity
InitSliceCache ==
    /\ MetastoreOff
    /\ PublisherOff
    /\ GcOff
    /\ DeltaOff
    /\ UploadersOff
    /\ PipelineOff
    /\ KafkaOff
    /\ MultipartOff
    /\ TailOff
    /\ sc_capacity \in 1 .. MaxCapacity
    /\ sc_cache = << >>
    /\ sc_obs = None

\* History: the number of entries of other addresses a put has removed.
Evicted(before, after, slice_addr) ==
    Len(WithoutAddress(before, slice_addr)) - Len(WithoutAddress(after, slice_addr))

sliceCacheOthers ==
    << msVars, pubVars, gcVars, dlVars, pipeVars, ulVars, kfVars, mpVars,
       tailVars >>

ScPut(path, byte_range, bytes) ==
    /\ sc_cache' = SliceCachePut(sc_cache, sc_capacity, path, byte_range, bytes)
    /\ sc_obs' = Some([op |-> "put", path |-> path, byte_range |-> byte_range,
                       bytes |-> bytes,
                       evicted |-> Evicted(sc_cache, sc_cache',
                                           SliceAddress(path, byte_range))])
    /\ UNCHANGED sc_capacity
    /\ UNCHANGED sliceCacheOthers

ScGet(path, bytes_range) ==
    /\ sc_cache' = SliceCacheGet(sc_cache, path, bytes_range).entries
    /\ sc_obs' = Some([op |-> "get", path |-> path, byte_range |-> bytes_range,
                       bytes |-> SliceCacheGet(sc_cache, path, bytes_range).result,
                       evicted |-> 0])
    /\ UNCHANGED sc_capacity
    /\ UNCHANGED sliceCacheOthers

NextSliceCache ==
    \/ \E path \in SlicePaths, byte_range \in SliceRanges, bytes \in SliceBytes :
          ScPut(path, byte_range, bytes)
    \/ \E path \in SlicePaths, bytes_range \in SliceRanges :
          ScGet(path, bytes_range)

SpecSliceCache == InitSliceCache /\ [][NextSliceCache]_vars


ScIsPut(obs) == IsSome(obs) /\ obs[1].op = "put"

ScIsGet(obs) == IsSome(obs) /\ obs[1].op = "get"

\* The payloads the entries hold for an address.
Held(entries, slice_addr) ==
    {entries[i].payload : i \in {j \in DOMAIN entries :
                                    entries[j].slice_addr = slice_addr}}

\* C26: when a put of an entry no larger than the capacity (neither its
\* range nor its bytes) would bring the total above the capacity, the
\* entries evicted are the least recently used ones and no more of them than
\* needed, the entries used more recently stay in their order, and the new
\* entry is in the cache and is returned by a get issued right after.
C26_PutEvictsLeastRecentlyUsed ==
    [][ScIsPut(sc_obs') =>
          LET o == sc_obs'[1]
              addr == SliceAddress(o.path, o.byte_range)
              rest == WithoutAddress(sc_cache, addr)
              new == << [slice_addr |-> addr, payload |-> o.bytes] >>
          IN  (/\ RangeLen(o.byte_range) <= sc_capacity
               /\ o.bytes.len <= sc_capacity
               /\ WeightedSize(rest) + o.bytes.len > sc_capacity) =>
                 /\ \E k \in 1 .. Len(rest) :
                       /\ sc_cache' = SubSeq(rest, k + 1, Len(rest)) \o new
                       /\ WeightedSize(SubSeq(rest, k, Len(rest))) + o.bytes.len
                             > sc_capacity
                 /\ SliceCacheGet(sc_cache', o.path, o.byte_range).result
                       = Some(o.bytes)]_vars

\* In a cache of capacity 3 that held an entry of 2 bytes, the least recently
\* used, and one of 1 byte, a put of 2 bytes has evicted the first only.
C26_Witness ==
    /\ sc_capacity = 3
    /\ ScIsPut(sc_obs)
    /\ sc_obs[1].evicted = 1
    /\ Len(sc_cache) = 2
    /\ sc_cache[1].payload.len = 1
    /\ sc_cache[2].payload = sc_obs[1].bytes
    /\ sc_cache[2].payload.len = 2

C28_GetReturnsBytesOfExactAddress ==
    [][IsSome(sc_obs') =>
          LET o == sc_obs'[1]
          IN  \A addr \in SliceAddresses :
                 /\ Cardinality(Held(sc_cache', addr)) <= 1
                 /\ IF o.op = "put" /\ addr = SliceAddress(o.path, o.byte_range)
                    THEN Held(sc_cache', addr)
                            \in {{o.bytes}, Held(sc_cache, addr)}
                    ELSE Held(sc_cache', addr) \in {Held(sc_cache, addr), {}}
                 /\ (o.op = "get" /\ addr = SliceAddress(o.path, o.byte_range)) =>
                       /\ Held(sc_cache', addr) = Held(sc_cache, addr)
                       /\ IF Held(sc_cache, addr) = {} THEN o.bytes = None
                          ELSE Held(sc_cache, addr) = {o.bytes[1]}]_vars

\* The cache holds bytes for the range 0..2 of path 1 and a get of the
\* range 1..2 of that path has returned nothing.
C28_Witness ==
    /\ ScIsGet(sc_obs)
    /\ sc_obs[1].path = 1
    /\ sc_obs[1].byte_range = << 1, 2 >>
    /\ sc_obs[1].bytes = None
    /\ Held(sc_cache, SliceAddress(1, << 0, 2 >>)) = {[len |-> 2, data |-> 1]}

(***************************************************************************)
(* The multipart put of the S3 storage:                                    *)
(* S3CompatibleObjectStorage::put_multi_part, one step per request.        *)
(***************************************************************************)

\* RetryParams::max_attempts of S3CompatibleObjectStorage::new.
max_attempts == 3

\* The payloads have 2 .. MaxParts parts.
MaxParts == 2

\* The upload ids CreateMultipartUpload may return.
UploadIds == {1, 2}

\* What one request to S3 may come to: done, an error that is_retryable(),
\* an error that is not.
AttemptOutcomes == {"ok", "transient", "permanent"}

\* What one call of upload_part may come to: the outcomes of its request,
\* or a failure to read the range of the payload, before any request.
UploadPartOutcomes == AttemptOutcomes \cup {"read_error"}

\* Mutant of RetryAfterAttempt: a permanent error is retried as well.
RetryAfterAnyError(num_attempts_before, outcome) ==
    IF outcome = "ok" THEN "ok"
    ELSE IF num_attempts_before + 1 >= max_attempts THEN "failed"
    ELSE "retry"

\* retry(): what follows an attempt, num_attempts_before attempts having
\* been made before it.
RetryAfterAttempt(num_attempts_before, outcome) ==
    IF outcome = "ok" THEN "ok"
    ELSE IF outcome = "permanent" THEN "failed"
    ELSE IF num_attempts_before + 1 >= max_attempts THEN "failed"
    ELSE "retry"

\* retry() of a request whose successive attempts come to `outcomes`.
RECURSIVE Retry(_, _)
Retry(outcomes, num_attempts_before) ==
    LET after == RetryAfterAttempt(num_attempts_before, Head(outcomes))
    IN  IF after = "retry"
        THEN Retry(Tail(outcomes), num_attempts_before + 1)
        ELSE [ok |-> after = "ok",
              num_attempts |-> num_attempts_before + 1,
              error |-> Head(outcomes)]

\* History: the request of a step and the outcomes of the attempts made.
RequestObs(request, outcomes, num_attempts) ==
    Some([request |-> request, made |-> SubSeq(outcomes, 1, num_attempts)])

\* put: a payload of one part is put by PutObject, a longer one by a
\* multipart upload.
PutDispatch(num_parts) ==
    IF num_parts <= 1 THEN "put_single_part" ELSE "create"

EmptyBucket == [object |-> FALSE, upload |-> "none"]

\* The outcomes of the attempts of one retried request.
RetriedOutcomes == [1 .. max_attempts -> AttemptOutcomes]

\* upload_part: the Retry<StorageError> of an outcome.
UploadPartRetry(outcome) ==
    IF outcome = "read_error" THEN "permanent" ELSE outcome

\* `made` is history: the Retry of each attempt made.
PendingPart ==
    [status |-> "pending", num_attempts |-> 0, error |-> None, made |-> << >>]

\* One attempt of upload_part under retry().
UploadPart(part_state, outcome) ==
    LET after == RetryAfterAttempt(part_state.num_attempts,
                                   UploadPartRetry(outcome))
    IN  [status |-> CASE after = "ok" -> "completed"
                      [] after = "failed" -> "failed"
                      [] OTHER -> "pending",
         num_attempts |-> part_state.num_attempts + 1,
         error |-> IF after = "failed" THEN Some(outcome) ELSE None,
         made |-> Append(part_state.made, UploadPartRetry(outcome))]

AllPartsDone(parts) ==
    \A part \in DOMAIN parts : parts[part].status # "pending"

FailedParts(parts) ==
    {part \in DOMAIN parts : parts[part].status = "failed"}

Min(set) == CHOOSE x \in set : \A y \in set : x <= y

\* Mutant of CompletedPartsRes: the result of the last part.
CompletedPartsResOfLast(parts) ==
    LET last == Len(parts)
    IN  IF parts[last].status # "failed"
        THEN [ok |-> TRUE, error |-> None]
        ELSE [ok |-> FALSE,
              error |-> Some([source |-> "upload_part", part |-> last,
                              kind |-> parts[last].error[1]])]

\* The results of the parts collected into one StorageResult: the first
\* error in the order of the parts, if there is one.
CompletedPartsRes(parts) ==
    IF FailedParts(parts) = {}
    THEN [ok |-> TRUE, error |-> None]
    ELSE LET part == Min(FailedParts(parts))
         IN  [ok |-> FALSE,
              error |-> Some([source |-> "upload_part", part |-> part,
                              kind |-> parts[part].error[1]])]

NoCalls ==
    [put_object |-> 0, complete |-> 0, complete_upload_id |-> None,
     abort |-> 0, abort_upload_id |-> None, abort_ok |-> FALSE,
     warned |-> FALSE]

InitMultipart ==
    /\ MetastoreOff
    /\ PublisherOff
    /\ GcOff
    /\ DeltaOff
    /\ UploadersOff
    /\ PipelineOff
    /\ KafkaOff
    /\ SliceCacheOff
    /\ TailOff
    /\ mp_num_parts \in 1 .. MaxParts
    /\ mp_pc = PutDispatch(mp_num_parts)
    /\ mp_upload_id = None
    /\ mp_parts = << >>
    /\ mp_calls = NoCalls
    /\ mp_result = None
    /\ mp_s3 = EmptyBucket
    /\ mp_obs = None
    /\ mp_kill_switch = [dead |-> FALSE, in_flight |-> FALSE]

multipartOthers ==
    << msVars, pubVars, gcVars, dlVars, pipeVars, ulVars, kfVars, scVars,
       tailVars >>

\* put_single_part: PutObject under retry(); its result is the result of
\* the put.
MpPutSinglePart(outcomes) ==
    /\ mp_pc = "put_single_part"
    /\ LET res == Retry(outcomes, 0)
       IN  /\ mp_calls' = [mp_calls EXCEPT !.put_object = res.num_attempts]
           /\ mp_s3' = [mp_s3 EXCEPT !.object = res.ok]
           /\ mp_obs' = RequestObs("put_object", outcomes, res.num_attempts)
           /\ mp_result' =
                  IF res.ok THEN Some([ok |-> TRUE, error |-> None])
                  ELSE Some([ok |-> FALSE,
                             error |-> Some([source |-> "put_single_part",
                                             part |-> 0, kind |-> res.error])])
    /\ mp_pc' = "done"
    /\ UNCHANGED << mp_num_parts, mp_upload_id, mp_parts, mp_kill_switch,
                    multipartOthers >>

\* create_multipart_upload; an error, or an output without upload id, is
\* returned by `?`.
MpCreateMultipartUpload(outcomes, upload_id_opt) ==
    /\ mp_pc = "create"
    /\ LET res == Retry(outcomes, 0)
       IN  /\ mp_obs' = RequestObs("create_multipart_upload", outcomes,
                                   res.num_attempts)
           /\ IF res.ok /\ IsSome(upload_id_opt)
              THEN /\ mp_upload_id' = upload_id_opt
                   /\ mp_s3' = [mp_s3 EXCEPT !.upload = "open"]
                   /\ mp_pc' = "prepare"
                   /\ mp_result' = mp_result
              ELSE /\ mp_upload_id' = mp_upload_id
                   /\ mp_s3' = mp_s3
                   /\ mp_pc' = "done"
                   /\ mp_result' =
                          Some([ok |-> FALSE,
                                error |-> Some([source |-> "create_multipart_upload",
                                                part |-> 0,
                                                kind |-> IF res.ok THEN "parse_error"
                                                         ELSE res.error])])
    /\ UNCHANGED << mp_num_parts, mp_parts, mp_calls, mp_kill_switch,
                    multipartOthers >>

\* create_multipart_requests; a failure to read a range of the payload or
\* to compute its MD5 is returned by `?`.
MpCreateMultipartRequests(read_ok) ==
    /\ mp_pc = "prepare"
    /\ IF read_ok
       THEN /\ mp_parts' = [part \in 1 .. mp_num_parts |-> PendingPart]
            /\ mp_pc' = "upload"
            /\ mp_result' = mp_result
       ELSE /\ mp_parts' = mp_parts
            /\ mp_pc' = "done"
            /\ mp_result' =
                   Some([ok |-> FALSE,
                         error |-> Some([source |-> "create_multipart_requests",
                                         part |-> 0, kind |-> "read_error"])])
    /\ UNCHANGED << mp_num_parts, mp_upload_id, mp_calls, mp_s3, mp_obs,
                    mp_kill_switch,
                    multipartOthers >>

\* One attempt of upload_part for a part that is not done.  The parts
\* run buffered(max_concurrent_upload): their attempts interleave, and
\* every part is brought to its end whatever becomes of the others.
MpUploadPart(part, outcome) ==
    /\ mp_pc = "upload"
    /\ part \in DOMAIN mp_parts
    /\ mp_parts[part].status = "pending"
    /\ mp_parts' = [mp_parts EXCEPT ![part] = UploadPart(@, outcome)]
    /\ mp_obs' = Some([request |-> "upload_part",
                       made |-> mp_parts'[part].made])
    /\ UNCHANGED << mp_pc, mp_num_parts, mp_upload_id, mp_calls, mp_result,
                    mp_s3, mp_kill_switch,
                    multipartOthers >>

\* match completed_parts_res, Ok(completed_parts): complete_multipart_upload,
\* whose result is the result of the put.
MpCompleteMultipartUpload(outcomes) ==
    /\ mp_pc = "upload"
    /\ AllPartsDone(mp_parts)
    /\ CompletedPartsRes(mp_parts).ok
    /\ LET res == Retry(outcomes, 0)
       IN  /\ mp_calls' = [mp_calls EXCEPT !.complete = res.num_attempts,
                                           !.complete_upload_id = mp_upload_id]
           /\ mp_obs' = RequestObs("complete_multipart_upload", outcomes,
                                   res.num_attempts)
           /\ mp_s3' = IF res.ok THEN [object |-> TRUE, upload |-> "completed"]
                       ELSE mp_s3
           /\ mp_result' =
                  IF res.ok THEN Some([ok |-> TRUE, error |-> None])
                  ELSE Some([ok |-> FALSE,
                             error |-> Some([source |-> "complete_multipart_upload",
                                             part |-> 0, kind |-> res.error])])
    /\ mp_pc' = "done"
    /\ UNCHANGED << mp_num_parts, mp_upload_id, mp_parts, mp_kill_switch,
                    multipartOthers >>

\* match completed_parts_res, Err(upload_error): abort_multipart_upload,
\* a warning if it fails, and Err(upload_error).
MpAbortMultipartUpload(outcomes) ==
    /\ mp_pc = "upload"
    /\ AllPartsDone(mp_parts)
    /\ ~CompletedPartsRes(mp_parts).ok
    /\ LET res == Retry(outcomes, 0)
       IN  /\ mp_calls' = [mp_calls EXCEPT !.abort = res.num_attempts,
                                           !.abort_upload_id = mp_upload_id,
                                           !.abort_ok = res.ok,
                                           !.warned = ~res.ok]
           /\ mp_obs' = RequestObs("abort_multipart_upload", outcomes,
                                   res.num_attempts)
           /\ mp_s3' = [mp_s3 EXCEPT !.upload = IF res.ok THEN "aborted" ELSE @]
    /\ mp_result' = Some([ok |-> FALSE,
                          error |-> CompletedPartsRes(mp_parts).error])
    /\ mp_pc' = "done"
    /\ UNCHANGED << mp_num_parts, mp_upload_id, mp_parts, mp_kill_switch,
                    multipartOthers >>

\* The kill switch of the pipeline is fired, by another task or actor of
\* the pipeline: put_multi_part holds no kill switch and reads none.
\* in_flight is history: the multipart upload was open and the put had
\* not returned.
MpKill ==
    /\ ~mp_kill_switch.dead
    /\ mp_kill_switch' =
           [dead |-> TRUE,
            in_flight |-> mp_pc \in {"prepare", "upload"} /\ mp_s3.upload = "open"]
    /\ UNCHANGED << mp_pc, mp_num_parts, mp_upload_id, mp_parts, mp_calls,
                    mp_result, mp_s3, mp_obs, multipartOthers >>

\* get_to_vec, copy_to_file: GetObject under retry().  The put has
\* returned and its parts are gone.
MpGet(outcomes) ==
    /\ mp_pc \in {"done", "idle"}
    /\ mp_obs' = RequestObs("get_object", outcomes, Retry(outcomes, 0).num_attempts)
    /\ mp_pc' = "idle"
    /\ mp_parts' = << >>
    /\ UNCHANGED << mp_num_parts, mp_upload_id, mp_calls, mp_result,
                    mp_s3, mp_kill_switch,
                    multipartOthers >>

\* delete: DeleteObject under retry().  The put has returned and its
\* parts are gone.
MpDelete(outcomes) ==
    /\ mp_pc \in {"done", "idle"}
    /\ LET res == Retry(outcomes, 0)
       IN  /\ mp_obs' = RequestObs("delete_object", outcomes, res.num_attempts)
           /\ mp_s3' = [mp_s3 EXCEPT !.object = IF res.ok THEN FALSE ELSE @]
    /\ mp_pc' = "idle"
    /\ mp_parts' = << >>
    /\ UNCHANGED << mp_num_parts, mp_upload_id, mp_calls, mp_result,
                    mp_kill_switch,
                    multipartOthers >>

NextMultipart ==
    \/ \E outcomes \in RetriedOutcomes : MpPutSinglePart(outcomes)
    \/ \E outcomes \in RetriedOutcomes, upload_id_opt \in {None} \cup {Some(id) : id \in UploadIds} :
           MpCreateMultipartUpload(outcomes, upload_id_opt)
    \/ \E read_ok \in BOOLEAN : MpCreateMultipartRequests(read_ok)
    \/ \E part \in 1 .. MaxParts, outcome \in UploadPartOutcomes :
           MpUploadPart(part, outcome)
    \/ \E outcomes \in RetriedOutcomes : MpCompleteMultipartUpload(outcomes)
    \/ \E outcomes \in RetriedOutcomes : MpAbortMultipartUpload(outcomes)
    \/ \E outcomes \in RetriedOutcomes : MpGet(outcomes)
    \/ \E outcomes \in RetriedOutcomes : MpDelete(outcomes)
    \/ MpKill

SpecMultipart == InitMultipart /\ [][NextMultipart]_vars

\* The upload of the part has failed terminally: on a permanent error, or
\* on a transient error at its last allowed attempt.
FailedTerminally(part_state) ==
    /\ part_state.status = "failed"
    /\ part_state.num_attempts <= max_attempts
    /\ \/ part_state.error \in {Some("permanent"), Some("read_error")}
       \/ /\ part_state.error = Some("transient")
          /\ part_state.num_attempts = max_attempts

\* C29: in a multipart put, when the upload of a part has failed terminally
\* (a permanent error, or a transient error on each of max_attempts
\* attempts, never more), AbortMultipartUpload has been called for the
\* upload id of the put, CompleteMultipartUpload has not been called, and
\* the put returns an error.
C29_PartFailureAbortsUpload ==
    /\ \A part \in DOMAIN mp_parts :
           /\ mp_parts[part].num_attempts <= max_attempts
           /\ mp_parts[part].status = "failed" => FailedTerminally(mp_parts[part])
           /\ mp_parts[part].status = "pending" =>
                  mp_parts[part].num_attempts < max_attempts
    /\ (mp_pc = "done" /\ \E part \in DOMAIN mp_parts :
                              FailedTerminally(mp_parts[part])) =>
           /\ IsSome(mp_upload_id)
           /\ mp_calls.abort >= 1
           /\ mp_calls.abort_upload_id = mp_upload_id
           /\ mp_calls.complete = 0
           /\ IsSome(mp_result)
           /\ ~mp_result[1].ok

\* C29 witness: part 1 is uploaded, part 2 fails on a transient error at
\* its third attempt; the upload 2 is aborted and the put returns the
\* error of part 2.
C29_Witness ==
    /\ mp_pc = "done"
    /\ mp_upload_id = Some(2)
    /\ Len(mp_parts) = 2
    /\ mp_parts[1].status = "completed"
    /\ mp_parts[2] = [status |-> "failed", num_attempts |-> max_attempts,
                      error |-> Some("transient"),
                      made |-> << "transient", "transient", "transient" >>]
    /\ mp_calls.abort = 1
    /\ mp_calls.abort_upload_id = Some(2)
    /\ mp_calls.complete = 0
    /\ mp_result = Some([ok |-> FALSE,
                         error |-> Some([source |-> "upload_part", part |-> 2,
                                         kind |-> "transient"])])

\* C30: whenever a multipart put returns an error after its multipart
\* upload was created (the parts could not be prepared, a part could not
\* be uploaded, or CompleteMultipartUpload failed), AbortMultipartUpload
\* has been attempted for that upload id, and a failure of the abort has
\* only been logged: the put returns the error that made it fail.
C30_AnyFailureAbortsUpload ==
    (mp_pc = "done" /\ IsSome(mp_upload_id) /\ ~mp_result[1].ok) =>
        /\ mp_calls.abort >= 1
        /\ mp_calls.abort_upload_id = mp_upload_id
        /\ ~mp_calls.abort_ok => mp_calls.warned
        /\ mp_result[1].error[1].source # "abort_multipart_upload"

\* C31: when a put has returned, either it returned success and the
\* complete object is at the key, with no multipart upload left open, or
\* it returned an error, no complete object is at the key and the
\* multipart upload the put created, if any, has been aborted.
C31_PutIsAtomic ==
    (mp_pc = "done") =>
        IF mp_result[1].ok
        THEN mp_s3.object /\ mp_s3.upload \in {"none", "completed"}
        ELSE ~mp_s3.object /\ mp_s3.upload \in {"none", "aborted"}

\* C32: every request to S3 is attempted at most max_attempts times, and
\* every attempt but the last one made has ended on a transient error: a
\* permanent error, like a success, is the last attempt of its request.
C32_RequestsRetriedOnTransientOnly ==
    /\ IsSome(mp_obs) =>
           /\ Len(mp_obs[1].made) \in 1 .. max_attempts
           /\ \A i \in 1 .. Len(mp_obs[1].made) - 1 :
                  mp_obs[1].made[i] = "transient"
    /\ \A part \in DOMAIN mp_parts :
           /\ Len(mp_parts[part].made) = mp_parts[part].num_attempts
           /\ Len(mp_parts[part].made) <= max_attempts
           /\ \A i \in 1 .. Len(mp_parts[part].made) - 1 :
                  mp_parts[part].made[i] = "transient"
           /\ mp_parts[part].status = "pending" =>
                  \A i \in 1 .. Len(mp_parts[part].made) :
                      mp_parts[part].made[i] = "transient"

\* C32 witness: an abort that was given up after three transient errors,
\* in a put whose second part ended on a permanent error at its first
\* attempt and whose first part was uploaded at its second attempt.
C32_Witness ==
    /\ mp_obs = Some([request |-> "abort_multipart_upload",
                      made |-> << "transient", "transient", "transient" >>])
    /\ Len(mp_parts) = 2
    /\ mp_parts[2].made = << "permanent" >>
    /\ mp_parts[1].made = << "transient", "ok" >>

\* C33: when the kill switch of the pipeline was fired while a multipart
\* upload was in flight, the put of that upload has attempted
\* AbortMultipartUpload for it by the time it returns, and has not completed
\* the upload.
C33_KillAbortsUploadInFlight ==
    (mp_pc = "done" /\ mp_kill_switch.in_flight) =>
        /\ mp_calls.abort >= 1
        /\ mp_calls.abort_upload_id = mp_upload_id
        /\ mp_s3.upload # "completed"

(***************************************************************************)
(* Storage::delete of the local file storage (local_file_storage.rs) and   *)
(* of the S3 storage (s3_compatible_storage.rs).                           *)
(***************************************************************************)

\* The paths of the storage go MaxDepth directories deep.
MaxDepth == 1

\* The directory at a depth, each one in the one before; the root is << >>.
DirAt(depth) == [i \in 1 .. depth |-> 0]

LocalDirs == {DirAt(depth) : depth \in 0 .. MaxDepth}

\* Two files in every directory.
LocalPaths == {Append(dir, file) : dir \in LocalDirs, file \in {1, 2}}

S3Keys == {1, 2}

\* Path::parent of a path that is not empty.
Parent(path) == SubSeq(path, 1, Len(path) - 1)

\* The directory of every ancestor of a path: fs::create_dir_all.
Ancestors(path) == {SubSeq(path, 1, n) : n \in 0 .. Len(path) - 1}

\* What an operation of the file system may come to.
IoResults == {"Ok", "NotFound", "Other"}

\* Mutant of MissingFileIsOk: the result as it is.
MissingFileIsError(io_result) == io_result

\* missing_file_is_ok
MissingFileIsOk(io_result) ==
    IF io_result = "NotFound" THEN "Ok" ELSE io_result

\* fs::remove_file; `fault` is the operation that meets an I/O error other
\* than NotFound, if any.
RemoveFile(files, path, fault) ==
    IF fault = "remove_file" THEN [result |-> "Other", files |-> files]
    ELSE IF path \in files THEN [result |-> "Ok", files |-> files \ {path}]
    ELSE [result |-> "NotFound", files |-> files]

\* read_dir(..).next().is_some()
IsNotEmpty(files, dirs, dir) ==
    \/ \E path \in files : Parent(path) = dir
    \/ \E sub \in dirs : sub # << >> /\ Parent(sub) = dir

\* delete_all_dirs: the empty directories from `path` upwards are removed;
\* the walk ends at a directory that is missing or not empty, and before
\* the parent "".
RECURSIVE DeleteAllDirs(_, _, _, _)
DeleteAllDirs(files, dirs, path, fault) ==
    IF path \notin dirs THEN [result |-> "Ok", dirs |-> dirs]
    ELSE IF fault = "read_dir" THEN [result |-> "Other", dirs |-> dirs]
    ELSE IF IsNotEmpty(files, dirs, path) THEN [result |-> "Ok", dirs |-> dirs]
    ELSE IF fault = "remove_dir" THEN [result |-> "Other", dirs |-> dirs]
    ELSE IF path = << >> \/ Parent(path) = << >>
    THEN [result |-> "Ok", dirs |-> dirs \ {path}]
    ELSE DeleteAllDirs(files, dirs \ {path}, Parent(path), fault)

\* LocalFileStorage::delete
LocalFileStorageDelete(files, dirs, path, fault) ==
    LET removed == RemoveFile(files, path, fault)
    IN  IF MissingFileIsOk(removed.result) # "Ok"
        THEN [ok |-> FALSE, files |-> removed.files, dirs |-> dirs,
              warned |-> FALSE]
        ELSE IF path = << >>
        THEN [ok |-> TRUE, files |-> removed.files, dirs |-> dirs,
              warned |-> FALSE]
        ELSE LET cleaned == DeleteAllDirs(removed.files, dirs, Parent(path), fault)
             IN  [ok |-> TRUE, files |-> removed.files, dirs |-> cleaned.dirs,
                  warned |-> cleaned.result # "Ok"]

\* LocalFileStorage::put; a failure after create_dir_all leaves the
\* directories, a failure after File::create leaves the file.
LocalFileStoragePut(files, dirs, path, fault) ==
    IF fault = "create_dir_all"
    THEN [ok |-> FALSE, files |-> files, dirs |-> dirs]
    ELSE IF fault \in {"byte_stream", "create"}
    THEN [ok |-> FALSE, files |-> files, dirs |-> dirs \cup Ancestors(path)]
    ELSE [ok |-> fault # "copy", files |-> files \cup {path},
          dirs |-> dirs \cup Ancestors(path)]

\* S3CompatibleObjectStorage::delete: DeleteObject under retry().  S3
\* answers a DeleteObject of a key that has no object like one of a key
\* that has one.
S3Delete(objects, key, outcomes) ==
    LET res == Retry(outcomes, 0)
    IN  [ok |-> res.ok,
         objects |-> IF res.ok THEN objects \ {key} ELSE objects]

InitStorage ==
    /\ MetastoreOff
    /\ PublisherOff
    /\ GcOff
    /\ DeltaOff
    /\ UploadersOff
    /\ PipelineOff
    /\ KafkaOff
    /\ SliceCacheOff
    /\ MultipartOff
    /\ RegionOff
    /\ GrpcOff
    /\ st_files = {}
    /\ st_dirs = {<< >>}
    /\ st_objects \in SUBSET S3Keys
    /\ st_obs = None

storageOthers ==
    << msVars, pubVars, gcVars, dlVars, pipeVars, ulVars, kfVars, scVars,
       mpVars, rgVars, grVars >>

StPut(path, fault) ==
    /\ LET put == LocalFileStoragePut(st_files, st_dirs, path, fault)
       IN  /\ st_files' = put.files
           /\ st_dirs' = put.dirs
           /\ st_obs' = Some([op |-> "put", storage |-> "file", path |-> path,
                              fault |-> fault, existed |-> path \in st_files,
                              ok |-> put.ok])
    /\ UNCHANGED << st_objects, storageOthers >>

StDelete(path, fault) ==
    /\ LET del == LocalFileStorageDelete(st_files, st_dirs, path, fault)
       IN  /\ st_files' = del.files
           /\ st_dirs' = del.dirs
           /\ st_obs' = Some([op |-> "delete", storage |-> "file",
                              path |-> path, fault |-> fault,
                              existed |-> path \in st_files, ok |-> del.ok])
    /\ UNCHANGED << st_objects, storageOthers >>

StS3Delete(key, outcomes) ==
    /\ LET del == S3Delete(st_objects, key, outcomes)
       IN  /\ st_objects' = del.objects
           /\ st_obs' = Some([op |-> "delete", storage |-> "s3", path |-> key,
                              fault |-> IF Retry(outcomes, 0).ok THEN "none"
                                        ELSE "request",
                              existed |-> key \in st_objects, ok |-> del.ok])
    /\ UNCHANGED << st_files, st_dirs, storageOthers >>

PutFaults == {"none", "create_dir_all", "byte_stream", "create", "copy"}

DeleteFaults == {"none", "remove_file", "read_dir", "remove_dir"}

NextStorage ==
    \/ \E path \in LocalPaths, fault \in PutFaults : StPut(path, fault)
    \/ \E path \in LocalPaths, fault \in DeleteFaults : StDelete(path, fault)
    \/ \E key \in S3Keys, outcomes \in RetriedOutcomes : StS3Delete(key, outcomes)

SpecStorage == InitStorage /\ [][NextStorage]_vars

\* C34: a delete of a path that has no object succeeds, unless the file
\* system or S3 fails on it with an error other than `not found`, and it
\* leaves every object as it was; so does the second of two deletes of the
\* same path.  A delete that succeeds removes the object of its path and no
\* other.
C34_DeleteOfMissingKeySucceeds ==
    [][(IsSome(st_obs') /\ st_obs'[1].op = "delete") =>
          LET o == st_obs'[1]
          IN  /\ (~o.existed /\ o.fault \notin {"remove_file", "request"}) =>
                     /\ o.ok
                     /\ st_files' = st_files
                     /\ st_objects' = st_objects
              /\ o.ok =>
                     /\ st_files' = IF o.storage = "file"
                                    THEN st_files \ {o.path} ELSE st_files
                     /\ st_objects' = IF o.storage = "s3"
                                      THEN st_objects \ {o.path} ELSE st_objects
              /\ ~o.ok => (st_files' = st_files /\ st_objects' = st_objects)]_vars

\* C34 witness: the file 1 of the directory 0 has been deleted, and it is
\* deleted once more; the file 2 of the directory is still there.
C34_Witness ==
    /\ IsSome(st_obs)
    /\ st_obs[1] = [op |-> "delete", storage |-> "file", path |-> << 0, 1 >>,
                    fault |-> "none", existed |-> FALSE, ok |-> TRUE]
    /\ st_files = {<< 0, 2 >>}
    /\ st_dirs = {<< >>, << 0 >>}

(***************************************************************************)
(* The region of the S3 storage: sniff_s3_region and the constructors of   *)
(* S3CompatibleObjectStorage (s3_compatible_storage.rs).                   *)
(***************************************************************************)

\* QUICKWIT_DEFAULT_REGION
QuickwitDefaultRegion == [name |-> "us-east-1", endpoint |-> None]

\* The strings Region::from_str accepts.
RegionCodes == {"us-east-1", "eu-west-1"}

\* The variables s3_region_env_var reads, in its order.
EnvVarKeys == << "QW_S3_ENDPOINT", "AWS_REGION", "AWS_DEFAULT_REGION" >>

\* The values of a variable of the environment: a region code, a custom
\* endpoint, a string that is neither.
EnvValues == {"eu-west-1", "http://minio/", "moon"}

StartsWithHttp(str) == str = "http://minio/"

\* trim_end_matches('/')
TrimEndSlash(str) == IF str = "http://minio/" THEN "http://minio" ELSE str

AwsRegion(name) == [name |-> name, endpoint |-> None]

\* s3_region_env_var: the value of the first variable that is set.
RECURSIVE S3RegionEnvVarFrom(_, _)
S3RegionEnvVarFrom(env, n) ==
    IF n > Len(EnvVarKeys) THEN None
    ELSE IF IsSome(env[EnvVarKeys[n]]) THEN env[EnvVarKeys[n]]
    ELSE S3RegionEnvVarFrom(env, n + 1)

S3RegionEnvVar(env) == S3RegionEnvVarFrom(env, 1)

\* region_from_str
RegionFromStr(region_str, env) ==
    IF region_str \in RegionCodes
    THEN [ok |-> TRUE, region_opt |-> Some(AwsRegion(region_str))]
    ELSE IF ~StartsWithHttp(region_str)
    THEN [ok |-> FALSE, region_opt |-> None]
    ELSE [ok |-> TRUE,
          region_opt |->
             Some([name |-> IF IsSome(env["AWS_REGION"])
                            THEN env["AWS_REGION"][1]
                            ELSE "qw-custom-endpoint",
                   endpoint |-> Some(TrimEndSlash(region_str))])]

\* region_from_env_variables
RegionFromEnvVariables(env) ==
    IF IsSome(S3RegionEnvVar(env))
    THEN RegionFromStr(S3RegionEnvVar(env)[1], env)
    ELSE [ok |-> TRUE, region_opt |-> None]

\* What ProfileProvider::region() may give: an error, no region, a string.
ConfigFileAnswers ==
    {[ok |-> FALSE, region |-> None], [ok |-> TRUE, region |-> None],
     [ok |-> TRUE, region |-> Some("eu-west-1")],
     [ok |-> TRUE, region |-> Some("moon")]}

\* region_from_config_file
RegionFromConfigFile(config_file) ==
    IF ~config_file.ok THEN [ok |-> FALSE, region_opt |-> None]
    ELSE IF config_file.region = None THEN [ok |-> TRUE, region_opt |-> None]
    ELSE IF config_file.region[1] \in RegionCodes
    THEN [ok |-> TRUE, region_opt |-> Some(AwsRegion(config_file.region[1]))]
    ELSE [ok |-> FALSE, region_opt |-> None]

\* What the instance metadata client may answer: NotFound, another error,
\* the metadata of the instance with its region.
Ec2Answers ==
    {[kind |-> "NotFound", region |-> None], [kind |-> "Error", region |-> None],
     [kind |-> "Ok", region |-> Some("us-east-1")],
     [kind |-> "Ok", region |-> Some("moon")]}

\* region_from_ec2_instance
RegionFromEc2Instance(ec2) ==
    IF ec2.kind = "NotFound" THEN [ok |-> TRUE, region_opt |-> None]
    ELSE IF ec2.kind = "Error" THEN [ok |-> FALSE, region_opt |-> None]
    ELSE IF ec2.region[1] \in RegionCodes
    THEN [ok |-> TRUE, region_opt |-> Some(AwsRegion(ec2.region[1]))]
    ELSE [ok |-> FALSE, region_opt |-> None]

\* History: what sniff_s3_region returns after it has asked `consulted`.
Sniffed(answer, consulted, from) ==
    [ok |-> answer.ok, region_opt |-> answer.region_opt,
     consulted |-> consulted, from |-> from]

\* Mutant of SniffS3Region: the config file is asked before the environment.
SniffS3RegionConfigFileFirst(env, config_file, ec2) ==
    LET from_env == RegionFromEnvVariables(env)
        from_config_file == RegionFromConfigFile(config_file)
        from_ec2 == RegionFromEc2Instance(ec2)
    IN  IF ~from_config_file.ok \/ IsSome(from_config_file.region_opt)
        THEN Sniffed(from_config_file, << "config-file" >>, "config-file")
        ELSE IF ~from_env.ok \/ IsSome(from_env.region_opt)
        THEN Sniffed(from_env, << "config-file", "env-variable" >>, "env-variable")
        ELSE IF ~from_ec2.ok \/ IsSome(from_ec2.region_opt)
        THEN Sniffed(from_ec2, << "config-file", "env-variable", "ec2" >>, "ec2")
        ELSE Sniffed([ok |-> TRUE, region_opt |-> Some(QuickwitDefaultRegion)],
                     << "config-file", "env-variable", "ec2" >>, "default")

\* sniff_s3_region
SniffS3Region(env, config_file, ec2) ==
    LET from_env == RegionFromEnvVariables(env)
        from_config_file == RegionFromConfigFile(config_file)
        from_ec2 == RegionFromEc2Instance(ec2)
    IN  IF ~from_env.ok \/ IsSome(from_env.region_opt)
        THEN Sniffed(from_env, << "env-variable" >>, "env-variable")
        ELSE IF ~from_config_file.ok \/ IsSome(from_config_file.region_opt)
        THEN Sniffed(from_config_file, << "env-variable", "config-file" >>,
                     "config-file")
        ELSE IF ~from_ec2.ok \/ IsSome(from_ec2.region_opt)
        THEN Sniffed(from_ec2, << "env-variable", "config-file", "ec2" >>, "ec2")
        ELSE Sniffed([ok |-> TRUE, region_opt |-> Some(QuickwitDefaultRegion)],
                     << "env-variable", "config-file", "ec2" >>, "default")

\* sniff_s3_region_and_cache: get_or_try_init keeps a region, not an error.
SniffS3RegionAndCache(cache, env, config_file, ec2) ==
    IF IsSome(cache)
    THEN [ok |-> TRUE, region_opt |-> cache, consulted |-> << >>,
          from |-> "cache", cache |-> cache]
    ELSE LET sniffed == SniffS3Region(env, config_file, ec2)
         IN  [ok |-> sniffed.ok, region_opt |-> sniffed.region_opt,
              consulted |-> sniffed.consulted, from |-> sniffed.from,
              cache |-> IF sniffed.ok THEN sniffed.region_opt ELSE cache]

InitRegion ==
    /\ MetastoreOff
    /\ PublisherOff
    /\ GcOff
    /\ DeltaOff
    /\ UploadersOff
    /\ PipelineOff
    /\ KafkaOff
    /\ SliceCacheOff
    /\ MultipartOff
    /\ StorageOff
    /\ GrpcOff
    /\ rg_env \in [{EnvVarKeys[n] : n \in 1 .. Len(EnvVarKeys)} ->
                      {None} \cup {Some(value) : value \in EnvValues}]
    /\ rg_config_file \in ConfigFileAnswers
    /\ rg_ec2 \in Ec2Answers
    /\ rg_cache = None
    /\ rg_obs = None

regionOthers ==
    << msVars, pubVars, gcVars, dlVars, pipeVars, ulVars, kfVars, scVars,
       mpVars, stVars, grVars >>

\* S3CompatibleObjectStorage::from_uri: the region is sniffed.
RgFromUri ==
    /\ LET res == SniffS3RegionAndCache(rg_cache, rg_env, rg_config_file, rg_ec2)
       IN  /\ rg_cache' = res.cache
           /\ rg_obs' = Some([call |-> "from_uri", ok |-> res.ok,
                              region_opt |-> res.region_opt,
                              consulted |-> res.consulted, from |-> res.from,
                              cached |-> rg_cache])
    /\ UNCHANGED << rg_env, rg_config_file, rg_ec2, regionOthers >>

\* S3CompatibleObjectStorage::from_region_and_uri: the region is given.
RgFromRegionAndUri(region) ==
    /\ rg_obs' = Some([call |-> "from_region_and_uri", ok |-> TRUE,
                       region_opt |-> Some(region), consulted |-> << >>,
                       from |-> "explicit", cached |-> rg_cache])
    /\ UNCHANGED << rg_env, rg_config_file, rg_ec2, rg_cache, regionOthers >>

NextRegion ==
    \/ RgFromUri
    \/ \E code \in RegionCodes : RgFromRegionAndUri(AwsRegion(code))

SpecRegion == InitRegion /\ [][NextRegion]_vars

\* The sources of the region after the explicit one, in the order of the
\* claim, and whether each provides nothing.
RegionSources == << "env-variable", "config-file", "ec2" >>

ProvidesNothing(source) ==
    CASE source = "env-variable" ->
            \A n \in 1 .. Len(EnvVarKeys) : rg_env[EnvVarKeys[n]] = None
      [] source = "config-file" ->
            rg_config_file = [ok |-> TRUE, region |-> None]
      [] source = "ec2" -> rg_ec2.kind = "NotFound"

\* The region a source provides, for a source whose value is well formed.
RegionProvidedBy(source) ==
    CASE source = "env-variable" ->
            LET value == IF IsSome(rg_env["QW_S3_ENDPOINT"])
                         THEN rg_env["QW_S3_ENDPOINT"][1]
                         ELSE IF IsSome(rg_env["AWS_REGION"])
                         THEN rg_env["AWS_REGION"][1]
                         ELSE rg_env["AWS_DEFAULT_REGION"][1]
            IN  IF value = "http://minio/"
                THEN [name |-> IF IsSome(rg_env["AWS_REGION"])
                               THEN rg_env["AWS_REGION"][1]
                               ELSE "qw-custom-endpoint",
                      endpoint |-> Some("http://minio")]
                ELSE [name |-> value, endpoint |-> None]
      [] source = "config-file" ->
            [name |-> rg_config_file.region[1], endpoint |-> None]
      [] source = "ec2" -> [name |-> rg_ec2.region[1], endpoint |-> None]
      [] source = "default" -> [name |-> "us-east-1", endpoint |-> None]

\* C35: a storage created with an explicit region has that region and no
\* other source is asked.  Else the sources are asked in the order
\* environment, config file, instance metadata: a source is asked only when
\* every source before it provides nothing, the region of the storage is
\* the one of the first source that provides something, and the default
\* when none does.
C35_RegionFromFirstSource ==
    IsSome(rg_obs) =>
        LET o == rg_obs[1]
            asked == {o.consulted[n] : n \in 1 .. Len(o.consulted)}
        IN  /\ o.call = "from_region_and_uri" =>
                   (o.from = "explicit" /\ asked = {} /\ o.ok)
            /\ (o.call = "from_uri" /\ o.cached = None) =>
                   /\ \A n \in 1 .. Len(RegionSources) :
                          RegionSources[n] \in asked <=>
                              \A m \in 1 .. n - 1 :
                                  ProvidesNothing(RegionSources[m])
                   /\ o.from = "default" <=>
                          \A n \in 1 .. Len(RegionSources) :
                              ProvidesNothing(RegionSources[n])
                   /\ o.from # "default" =>
                          /\ ~ProvidesNothing(o.from)
                          /\ o.from \in asked
                          /\ \A n \in 1 .. Len(RegionSources) :
                                 RegionSources[n] \in asked \ {o.from} =>
                                     ProvidesNothing(RegionSources[n])
                   /\ o.ok => o.region_opt = Some(RegionProvidedBy(o.from))
            /\ (o.call = "from_uri" /\ o.cached # None) =>
                   (o.ok /\ o.region_opt = o.cached /\ asked = {})

\* C35 witness: no variable of the environment is set, the config file
\* gives eu-west-1 and the instance metadata us-east-1: the region is the
\* one of the config file, and the metadata service has not been asked.
C35_Witness ==
    /\ IsSome(rg_obs)
    /\ rg_obs[1].call = "from_uri"
    /\ rg_obs[1].cached = None
    /\ \A n \in 1 .. Len(EnvVarKeys) : rg_env[EnvVarKeys[n]] = None
    /\ rg_config_file.region = Some("eu-west-1")
    /\ rg_ec2.region = Some("us-east-1")
    /\ rg_obs[1].region_opt = Some([name |-> "eu-west-1", endpoint |-> None])
    /\ rg_obs[1].consulted = << "env-variable", "config-file" >>

(***************************************************************************)
(* The counters of the publisher (publisher.rs, PublisherCounters).        *)
(***************************************************************************)

\* C36: a SplitUpdate with a checkpoint delta and no replaced split that the
\* publisher publishes adds one to num_published_splits; a replace operation
\* (new splits, replaced splits, no delta) adds one to
\* num_replace_operations and leaves num_published_splits as it was.
C36_PublisherCounters ==
    [][(IsSome(pub_obs') /\ pub_obs'[1].reply.ok) =>
          /\ (/\ IsSome(pub_obs'[1].update.checkpoint_delta_opt)
              /\ pub_obs'[1].update.replaced_split_ids = << >>) =>
                 pub_counters' =
                    [pub_counters EXCEPT !.num_published_splits = @ + 1]
          /\ IsReplaceOperation(pub_obs'[1]) =>
                 pub_counters' =
                    [pub_counters EXCEPT !.num_replace_operations = @ + 1]
      ]_vars

\* The first half of C36 alone: it holds.
C36_PublishOperationCounted ==
    [][(/\ IsSome(pub_obs')
        /\ pub_obs'[1].reply.ok
        /\ IsSome(pub_obs'[1].update.checkpoint_delta_opt)
        /\ pub_obs'[1].update.replaced_split_ids = << >>) =>
          pub_counters' = [pub_counters EXCEPT !.num_published_splits = @ + 1]
      ]_vars

(***************************************************************************)
(* The order of the publish_splits calls of a pipeline (indexer.rs,        *)
(* uploader.rs, publisher.rs).                                             *)
(***************************************************************************)

\* A batch the indexer has sent to the packager is on its way: it waits for
\* the uploader, it waits for a permit, or its receiver is in the queue of
\* the sequencer.
EarlierBatchInFlight ==
    pk_queue # << >> \/ IsSome(up_batch) \/ seq_queue # << >>

\* C37: the publish_splits calls that carry a delta reach the metastore in
\* the order of the commits of the indexer: the publish of a workbench
\* without a split is not made while a batch committed before it is on its
\* way, and the publisher publishes the batches in the order of their
\* commits.
C37_DeltasReachMetastoreInCommitOrder ==
    [][Len(publish_log') = Len(publish_log) + 1 =>
          LET call == publish_log'[Len(publish_log')]
          IN  /\ call.by = "indexer" => ~EarlierBatchInFlight
              /\ call.by = "publisher" =>
                    \A i \in DOMAIN publish_log :
                        publish_log[i].by = "publisher" =>
                            publish_log[i].batch < call.batch
      ]_vars

\* The half of C37 about the publisher alone: it holds.
C37_PublisherInCommitOrder ==
    [][Len(publish_log') = Len(publish_log) + 1 =>
          LET call == publish_log'[Len(publish_log')]
          IN  call.by = "publisher" =>
                 \A i \in DOMAIN publish_log :
                     publish_log[i].by = "publisher" =>
                         publish_log[i].batch < call.batch
      ]_vars

(***************************************************************************)
(* The one-shot channels between the upload tasks and the sequencer        *)
(* (uploader.rs), under a scheduler that is fair to the uploader and to    *)
(* the tasks it has spawned.                                               *)
(***************************************************************************)

\* The steps of UploaderHandleSpawn, told by what they do to the uploader:
\* the handler that waits for a permit gets one and goes on.
UploaderPermitAcquired ==
    /\ up_pc = "acquire"
    /\ permits > 0
    /\ up_pc' = IF killed THEN "Killed" ELSE "idle"

\* The steps of the task of batch c, told by what they do to the task: the
\* call in progress returns, with an error or not.
TaskStepTaken(c) ==
    /\ c \in DOMAIN tasks
    /\ tasks[c].state = "running"
    /\ tasks' \in {[tasks EXCEPT ![c].state = "failed"], TaskAfterStep(c).tasks}

\* The batches the packager has sent to the uploader: n batches of one
\* split each, the first one of two splits when `two`, each with the delta
\* that follows the one before.
PackagerOutput(n, two) ==
    [c \in 1 .. n |->
        IndexedSplitBatch(
            IF two /\ c = 1
            THEN << [split_id |-> 1, num_docs |-> 1, index_writer |-> << 0 >>],
                    [split_id |-> n + 1, num_docs |-> 1,
                     index_writer |-> << 1 >>] >>
            ELSE << [split_id |-> c, num_docs |-> 1, index_writer |-> << 0 >>] >>,
            IndexCheckpointDelta(
                [p \in {DefaultPartition} |-> [from |-> c - 2, to |-> c - 1]]),
            c)]

\* The uploader, its tasks, the sequencer and the publisher of a pipeline
\* whose indexer has sent its batches.
InitUploaderFair ==
    /\ ExtOff
    /\ ms_splits = [s \in PipeSplitIds |-> Absent]
    /\ ms_checkpoint = EmptyMap
    /\ init_checkpoint = EmptyMap
    /\ storage = [s \in PipeSplitIds |-> 0]
    /\ ever_staged = {}
    /\ ever_marked = {}
    /\ pub_status = "running"
    /\ pub_has_source = TRUE
    /\ pub_counters = DefaultPublisherCounters
    /\ pub_obs = None
    /\ GcOff
    /\ DeltaOff
    /\ UploadersOff
    /\ src_pos = Beginning
    /\ src_emitted = 0
    /\ idx_status = "off"
    /\ idx_workbench = None
    /\ idx_counters = None
    /\ idx_timeouts = {}
    /\ idx_next_id = 0
    /\ idx_scheduled = << >>
    /\ idx_finalized = 0
    /\ idx_obs = None
    /\ idx_received = 0
    /\ \E n \in 1 .. MaxBatches, two \in BOOLEAN :
          /\ two => n < MaxBatches
          /\ pk_queue = PackagerOutput(n, two)
    /\ up_pc = "idle"
    /\ up_batch = None
    /\ permits \in 1 .. MAX_CONCURRENT_SPLIT_UPLOAD
    /\ tasks = << >>
    /\ seq_queue = << >>
    /\ chan = << >>
    /\ killed = FALSE
    /\ publish_log = << >>
    /\ done_early = {}
    /\ stage_failed = {}

NextUploaderFair ==
    \/ UploaderHandleEnqueue
    \/ UploaderHandleSpawn
    \/ \E c \in 1 .. MaxBatches : TaskGetSplitPayloadFails(c)
    \/ \E c \in 1 .. MaxBatches, ok \in BOOLEAN : TaskStageSplit(c, ok)
    \/ \E c \in 1 .. MaxBatches, ok \in BOOLEAN : TaskStoreSplit(c, ok)
    \/ PublisherHandle

\* The uploader when the semaphore hands out its permits and the runtime
\* runs the tasks: a handler that waits for a permit that is available gets
\* it, and a call of a task returns.
SpecUploaderFair ==
    /\ InitUploaderFair
    /\ [][NextUploaderFair]_vars
    /\ WF_up_pc(UploaderPermitAcquired)
    /\ \A c \in 1 .. MaxBatches : WF_tasks(TaskStepTaken(c))

GrpcSplitIds == {1, 2}

\* MetastoreError::IndexAlreadyExists, IndexDoesNotExist
LocalCreateIndex(index_exists) ==
    IF index_exists THEN ReplyError("IndexAlreadyExists") ELSE ReplyOk

LocalDeleteIndex(index_exists) ==
    IF index_exists THEN ReplyOk ELSE ReplyError("IndexDoesNotExist")

\* MetastoreService::stage_split (Local)
LocalStageSplit(index_exists, splits, split_id) ==
    IF ~index_exists
    THEN [reply |-> ReplyError("IndexDoesNotExist"), splits |-> splits]
    ELSE StageSplitOp(splits, split_id)

\* MetastoreService::publish_splits (Local)
LocalPublishSplits(index_exists, splits, ck, request) ==
    IF ~index_exists
    THEN [reply |-> ReplyError("IndexDoesNotExist"), splits |-> splits,
          ck |-> ck]
    ELSE MetastoreServicePublishSplits(splits, ck, request)

\* error.to_string(): the sentence of the #[error(..)] attribute of the
\* variant, with its fields.
ErrorToString(error) == [text |-> "display", error |-> error]

\* serde_json::to_string(&error), which the adapter does not call.
ErrorToJson(error) == [text |-> "json", error |-> error]

\* convert_error: tonic::Status::internal(error.to_string())
ConvertError(error) == [code |-> "Internal", message |-> ErrorToString(error)]

\* serde_json::from_str::<MetastoreError>(message): only the JSON of a
\* MetastoreError decodes.
MetastoreErrorFromStr(message) ==
    IF message.text = "json" THEN Some(message.error) ELSE None

\* parse_grpc_error
ParseGrpcError(grpc_error) ==
    LET decoded == MetastoreErrorFromStr(grpc_error.message)
    IN  IF IsSome(decoded) THEN decoded[1] ELSE ReplyError("InternalError")

\* A method of GrpcMetastoreServiceAdapter: the reply of the Local service,
\* its error mapped by convert_error.
GrpcAdapterCall(local_reply) ==
    IF local_reply.ok THEN [ok |-> TRUE, status |-> None]
    ELSE [ok |-> FALSE, status |-> Some(ConvertError(local_reply))]

\* A method of MetastoreService (Grpc): the reply of the adapter, its
\* status mapped by parse_grpc_error.
GrpcClientCall(local_reply) ==
    LET served == GrpcAdapterCall(local_reply)
    IN  IF served.ok THEN ReplyOk ELSE ParseGrpcError(served.status[1])

GrpcObs(method, local_reply) ==
    Some([method |-> method, local |-> local_reply,
          grpc |-> GrpcClientCall(local_reply)])

\* The requests of publish_splits: no or one new split, a delta or none.
GrpcPublishRequests ==
    {[index_id |-> IndexId, split_ids |-> split_ids,
      replaced_split_ids |-> << >>,
      index_checkpoint_delta_serialized_json |-> SerializeDeltaOpt(delta_opt)] :
        split_ids \in {<< >>} \cup {<< s >> : s \in GrpcSplitIds},
        delta_opt \in {None} \cup
            {Some(IndexCheckpointDelta(
                    [p \in {DefaultPartition} |-> [from |-> from, to |-> from + 1]])) :
                from \in {Beginning, 0}}}

InitGrpc ==
    /\ MetastoreOff
    /\ PublisherOff
    /\ GcOff
    /\ DeltaOff
    /\ UploadersOff
    /\ PipelineOff
    /\ KafkaOff
    /\ SliceCacheOff
    /\ MultipartOff
    /\ StorageOff
    /\ RegionOff
    /\ gr_index_exists = FALSE
    /\ gr_splits = [s \in GrpcSplitIds |-> Absent]
    /\ gr_checkpoint = EmptyMap
    /\ gr_obs = None

grpcOthers ==
    << msVars, pubVars, gcVars, dlVars, pipeVars, ulVars, kfVars, scVars,
       mpVars, stVars, rgVars >>

\* create_index through the gRPC service.
GrCreateIndex ==
    /\ gr_obs' = GrpcObs("create_index", LocalCreateIndex(gr_index_exists))
    /\ gr_index_exists' = TRUE
    /\ UNCHANGED << gr_splits, gr_checkpoint, grpcOthers >>

\* delete_index through the gRPC service.
GrDeleteIndex ==
    /\ gr_obs' = GrpcObs("delete_index", LocalDeleteIndex(gr_index_exists))
    /\ gr_index_exists' = FALSE
    /\ gr_splits' = [s \in GrpcSplitIds |-> Absent]
    /\ gr_checkpoint' = EmptyMap
    /\ UNCHANGED grpcOthers

\* stage_split through the gRPC service.
GrStageSplit(split_id) ==
    /\ LET res == LocalStageSplit(gr_index_exists, gr_splits, split_id)
       IN  /\ gr_obs' = GrpcObs("stage_split", res.reply)
           /\ gr_splits' = res.splits
    /\ UNCHANGED << gr_index_exists, gr_checkpoint, grpcOthers >>

\* publish_splits through the gRPC service.
GrPublishSplits(request) ==
    /\ LET res == LocalPublishSplits(gr_index_exists, gr_splits,
                                     gr_checkpoint, request)
       IN  /\ gr_obs' = GrpcObs("publish_splits", res.reply)
           /\ gr_splits' = res.splits
           /\ gr_checkpoint' = res.ck
    /\ UNCHANGED << gr_index_exists, grpcOthers >>

NextGrpc ==
    \/ GrCreateIndex
    \/ GrDeleteIndex
    \/ \E s \in GrpcSplitIds : GrStageSplit(s)
    \/ \E request \in GrpcPublishRequests : GrPublishSplits(request)

SpecGrpc == InitGrpc /\ [][NextGrpc]_vars

\* C39: a call through the gRPC service succeeds when the same call on the
\* Local service that serves it succeeds, and fails with an error of the
\* same kind when it fails.
C39_GrpcReturnsTheLocalError ==
    IsSome(gr_obs) =>
        /\ gr_obs[1].grpc.ok = gr_obs[1].local.ok
        /\ gr_obs[1].grpc.error = gr_obs[1].local.error

\* What the code does: every error of the Local service comes out of the
\* gRPC service as an InternalError.
C39_GrpcReturnsInternalError ==
    IsSome(gr_obs) =>
        /\ gr_obs[1].grpc.ok = gr_obs[1].local.ok
        /\ ~gr_obs[1].local.ok => gr_obs[1].grpc.error = "InternalError"

(***************************************************************************)
(* The permits of CONCURRENT_UPLOAD_PERMITS (uploader.rs), under a         *)
(* semaphore that serves its waiters and a runtime that runs the tasks.    *)
(***************************************************************************)

\* The steps of UlHandleSpawn(u), told by what they do to the uploader: the
\* handler that waits for a permit gets one and goes on.
UlPermitAcquired(u) ==
    /\ ul_pc[u] = "acquire"
    /\ permits > 0
    /\ ul_pc' = [ul_pc EXCEPT ![u] = IF ul_killed[PipelineOfUploader(u)]
                                     THEN "Killed" ELSE "idle"]

\* The steps of UlTaskEnds(u, outcome), told by what they do to the tasks of
\* the uploader.
UlTaskEnded(u) ==
    /\ ul_running[u] > 0
    /\ ul_running' = [ul_running EXCEPT ![u] = @ - 1]

\* The uploaders when a handler that waits for a permit that is available
\* gets it, and every spawned task ends.
SpecUploadersFair ==
    /\ InitUploaders
    /\ [][NextUploaders]_vars
    /\ \A u \in Uploaders : WF_ul_pc(UlPermitAcquired(u))
    /\ \A u \in Uploaders : WF_ul_running(UlTaskEnded(u))

\* C40: every permit that is not available is held by a task in progress,
\* so that all MAX_CONCURRENT_SPLIT_UPLOAD permits are available when no
\* task is; the permits taken come back in the end, however the tasks end
\* and whether the handler spawns a task or returns on a dead kill switch;
\* and a handler that waits for a permit does not wait forever.
C40_PermitsAlwaysReleased ==
    /\ [](permits = MAX_CONCURRENT_SPLIT_UPLOAD - TasksInProgress)
    /\ [](TasksInProgress = 0 => permits = MAX_CONCURRENT_SPLIT_UPLOAD)
    /\ (permits < MAX_CONCURRENT_SPLIT_UPLOAD)
          ~> (permits = MAX_CONCURRENT_SPLIT_UPLOAD)
    /\ \A u \in Uploaders : (ul_pc[u] = "acquire") ~> (ul_pc[u] # "acquire")

\* A task has failed and fired the kill switch of its pipeline, an
\* uploader of that pipeline has taken a permit, found the kill switch dead
\* and returned; every task has ended and the four permits are available.
C40_Witness ==
    /\ \E u \in Uploaders :
          /\ ul_pc[u] = "Killed"
          /\ ul_killed[PipelineOfUploader(u)]
    /\ \E u \in Uploaders :
          /\ ~ul_killed[PipelineOfUploader(u)]
          /\ ul_received[u] = MaxUploaderBatches
          /\ ul_pc[u] = "idle"
    /\ TasksInProgress = 0
    /\ permits = MAX_CONCURRENT_SPLIT_UPLOAD

====
